---- MODULE Spec2Model ----
(***************************************************************************)
(* Triage core of agentic-triage-copilot: the deterministic rule engine    *)
(* (agent/analyze/deterministic.py), the refinement stage                  *)
(* (agent/analyze/llm.py), retrieval (agent/retrieval/rag.py), the         *)
(* analyze and decision routes with their in-memory stores                 *)
(* (apps/api/routes/analyze.py, apps/api/routes/decisions.py,              *)
(* apps/api/auth.py, apps/api/storage.py) and the classifier               *)
(* (agent/classify/classifier.py).                                         *)
(*                                                                         *)
(* Specifications.  SpecEngine, SpecRange, SpecAudit, SpecScan and         *)
(* SpecCap: one call of analyze_issue (on the issues of the engine, on one *)
(* numeric leaf around the limits, on payloads of growing size, on missing *)
(* leaves at every depth, on heart rates in and out of range).  SpecTwice: *)
(* repeated calls of analyze_issue.  SpecRefine: one call of               *)
(* enhance_with_llm.  SpecRetrieve: one call of search_documents_semantic. *)
(* SpecClassify: one call of classify_issue.  SpecPure: repeated calls of  *)
(* _classify_rule_based in processes with different hash seeds.  Spec: the *)
(* API with issues, documents and analyses.  SpecWorkflow: the API with    *)
(* issues, analyses and decisions.                                         *)
(*                                                                         *)
(* Representation.  A Python str is a sequence of one-character strings;   *)
(* identifiers that are only compared for equality (enum values, rule      *)
(* tags, subject ids, field names, model names, the keys of tool_results   *)
(* and of the refiner's JSON object) are TLA+ strings.  A JSON value is a  *)
(* tagged record (t = "null", "bool", "int", "bigint", "float", "nan",     *)
(* "str", "list", "dict"); an evidence dict keeps its items in insertion   *)
(* order.  Real numbers are integers counted in hundredths.  A value of    *)
(* type str | None is None, a tagged str or the record of an f-string.     *)
(***************************************************************************)
EXTENDS Integers, Sequences, FiniteSets, TLC

VARIABLES
    issue,      \* the Issue handed to analyze_issue (SpecEngine, SpecRange,
                \* SpecAudit, SpecScan, SpecCap, SpecTwice); SpecClassify
                \* and SpecPure: the IssueCreate
    outcome,    \* what the call did ("none" before the call); SpecTwice
                \* and SpecPure: the results of the calls so far
    refineIn,   \* SpecRefine: arguments and environment of enhance_with_llm;
                \* SpecCap: how the evidence was built
    refineOut,  \* SpecRefine: what the call did
    searchIn,   \* SpecRetrieve: arguments and environment of search_documents_semantic
    searchOut,  \* SpecRetrieve: what the call did
    ISSUES,     \* Spec, SpecWorkflow: storage.ISSUES, issue id -> Issue
    RUNS,       \* Spec, SpecWorkflow: storage.RUNS, issue id -> sequence of AgentRun
    AUDIT,      \* Spec, SpecWorkflow: storage.AUDIT, sequence of AuditEvent
    DOCUMENTS,  \* Spec: the stored documents in order of ingestion
    DECISIONS,  \* SpecWorkflow: storage.DECISIONS, issue id -> sequence of
                \* Decision, most recent first
    env,        \* Spec, SpecWorkflow, SpecClassify, SpecTwice, SpecPure:
                \* process environment (packages, variables, hash seed,
                \* external services)
    response,   \* Spec, SpecWorkflow: the last response of a route
    trace       \* Spec, SpecWorkflow: history, one entry for every call of
                \* the analyze route and of the decision route

vars == <<issue, outcome, refineIn, refineOut, searchIn, searchOut,
          ISSUES, RUNS, AUDIT, DOCUMENTS, DECISIONS, env, response, trace>>

-----------------------------------------------------------------------------
(* Python str operations on character sequences                             *)

UpperChars == <<"A","B","C","D","E","F","G","H","I","J","K","L","M","N","O","P","Q","R","S","T","U","V","W","X","Y","Z">>
LowerChars == <<"a","b","c","d","e","f","g","h","i","j","k","l","m","n","o","p","q","r","s","t","u","v","w","x","y","z">>
DigitChars == <<"0","1","2","3","4","5","6","7","8","9">>
Whitespace == {" ", "\t", "\n"}

LowerChar(c) ==
    IF \E i \in 1..26 : UpperChars[i] = c
    THEN LowerChars[CHOOSE i \in 1..26 : UpperChars[i] = c]
    ELSE c

\* str.lower()
_lower(text) == [i \in 1..Len(text) |-> LowerChar(text[i])]

\* needle in haystack
Contains(haystack, needle) ==
    \/ needle = <<>>
    \/ \E i \in 0..(Len(haystack) - Len(needle)) :
           /\ haystack[i + 1] = needle[1]
           /\ SubSeq(haystack, i + 1, i + Len(needle)) = needle

\* str.strip()
Strip(s) ==
    LET keep == {i \in 1..Len(s) : s[i] \notin Whitespace}
    IN  IF keep = {} THEN <<>>
        ELSE SubSeq(s, CHOOSE i \in keep : \A j \in keep : i <= j,
                       CHOOSE i \in keep : \A j \in keep : i >= j)

\* s[a-1:b] for 1 <= a: a slice never reaches past the end
Slice(s, a, b) == SubSeq(s, a, IF b <= Len(s) THEN b ELSE Len(s))

\* str.endswith
EndsWith(s, suffix) ==
    /\ Len(s) >= Len(suffix)
    /\ SubSeq(s, Len(s) - Len(suffix) + 1, Len(s)) = suffix

IsDigit(c) == \E i \in 1..10 : DigitChars[i] = c
DigitVal(c) == (CHOOSE i \in 1..10 : DigitChars[i] = c) - 1

RECURSIVE DigitsVal(_)
\* int("123") for a sequence of digits
DigitsVal(s) ==
    IF s = <<>> THEN 0
    ELSE 10 * DigitsVal(SubSeq(s, 1, Len(s) - 1)) + DigitVal(s[Len(s)])

AllDigits(s) == \A i \in 1..Len(s) : IsDigit(s[i])

RECURSIVE IntToStr(_)
\* str(i) for i >= 0
IntToStr(i) ==
    IF i < 10 THEN <<DigitChars[i + 1]>>
    ELSE IntToStr(i \div 10) \o <<DigitChars[(i % 10) + 1]>>

\* _contains_all(haystack, needles): every needle occurs in the lower-cased haystack
_contains_all(haystack, needles) ==
    LET h == _lower(haystack)
    IN  \A i \in 1..Len(needles) : Contains(h, needles[i])

-----------------------------------------------------------------------------
(* JSON-like values                                                         *)

JNull == [t |-> "null"]
JBool(b) == [t |-> "bool", b |-> b]
JInt(v) == [t |-> "int", v |-> v]
\* an integer sign * 10^exp10 too large to write out
JBig(sign, exp10) == [t |-> "bigint", sign |-> sign, exp10 |-> exp10]
\* a float, in hundredths
JFloat(v100) == [t |-> "float", v100 |-> v100]
\* the JSON literal NaN
JNaN == [t |-> "nan"]
JStr(s) == [t |-> "str", s |-> s]
JList(items) == [t |-> "list", items |-> items]
\* items: a sequence of [k |-> key, v |-> value] in insertion order
JDict(items) == [t |-> "dict", items |-> items]
KV(k, v) == [k |-> k, v |-> v]

\* dict get / put on a tool_results bag (a function from key to value)
Has(d, k) == k \in DOMAIN d
Get(d, k, default) == IF k \in DOMAIN d THEN d[k] ELSE default
Put(d, k, v) == [x \in (DOMAIN d) \cup {k} |-> IF x = k THEN v ELSE d[x]]

\* Python None where a value of another type may stand
None == [t |-> "None"]

-----------------------------------------------------------------------------
(* datetime.fromisoformat, for the forms YYYY-MM-DD, YYYY-MM-DDTHH:MM:SS    *)
(* and YYYY-MM-DDTHH:MM:SS+HH:MM (or -HH:MM).  A parsed value is            *)
(* [ok, aware, days, secs, off]: proleptic ordinal day, second of the day   *)
(* in local time, and the UTC offset in seconds (0 and aware = FALSE for a  *)
(* timezone-naive value).                                                   *)

IsLeap(y) == (y % 4 = 0 /\ y % 100 # 0) \/ y % 400 = 0

DaysInMonth(y, m) ==
    IF m = 2 THEN (IF IsLeap(y) THEN 29 ELSE 28)
    ELSE IF m \in {4, 6, 9, 11} THEN 30 ELSE 31

DaysBeforeMonth == <<0, 31, 59, 90, 120, 151, 181, 212, 243, 273, 304, 334>>

\* date.toordinal()
ToOrdinal(y, m, d) ==
    LET y1 == y - 1
    IN  365 * y1 + (y1 \div 4) - (y1 \div 100) + (y1 \div 400)
        + DaysBeforeMonth[m] + (IF m > 2 /\ IsLeap(y) THEN 1 ELSE 0) + d

NotParsed == [ok |-> FALSE]

ParseDate(s) ==
    IF /\ Len(s) = 10
       /\ AllDigits(SubSeq(s, 1, 4)) /\ s[5] = "-"
       /\ AllDigits(SubSeq(s, 6, 7)) /\ s[8] = "-"
       /\ AllDigits(SubSeq(s, 9, 10))
    THEN LET y == DigitsVal(SubSeq(s, 1, 4))
             m == DigitsVal(SubSeq(s, 6, 7))
             d == DigitsVal(SubSeq(s, 9, 10))
         IN  IF y >= 1 /\ m \in 1..12 /\ d >= 1 /\ d <= DaysInMonth(y, m)
             THEN [ok |-> TRUE, days |-> ToOrdinal(y, m, d)]
             ELSE NotParsed
    ELSE NotParsed

\* HH:MM:SS -> second of the day
ParseTime(s) ==
    IF /\ Len(s) = 8
       /\ AllDigits(SubSeq(s, 1, 2)) /\ s[3] = ":"
       /\ AllDigits(SubSeq(s, 4, 5)) /\ s[6] = ":"
       /\ AllDigits(SubSeq(s, 7, 8))
    THEN LET h == DigitsVal(SubSeq(s, 1, 2))
             m == DigitsVal(SubSeq(s, 4, 5))
             x == DigitsVal(SubSeq(s, 7, 8))
         IN  IF h < 24 /\ m < 60 /\ x < 60
             THEN [ok |-> TRUE, secs |-> 3600 * h + 60 * m + x]
             ELSE NotParsed
    ELSE NotParsed

\* +HH:MM / -HH:MM -> offset in seconds
ParseOffset(s) ==
    IF /\ Len(s) = 6 /\ s[1] \in {"+", "-"}
       /\ AllDigits(SubSeq(s, 2, 3)) /\ s[4] = ":" /\ AllDigits(SubSeq(s, 5, 6))
    THEN LET h == DigitsVal(SubSeq(s, 2, 3))
             m == DigitsVal(SubSeq(s, 5, 6))
         IN  IF h < 24 /\ m < 60
             THEN [ok |-> TRUE,
                   off |-> (IF s[1] = "-" THEN -1 ELSE 1) * (3600 * h + 60 * m)]
             ELSE NotParsed
    ELSE NotParsed

fromisoformat(s) ==
    LET n == Len(s)
        d == ParseDate(Slice(s, 1, 10))
        tm == ParseTime(Slice(s, 12, 19))
        o == ParseOffset(Slice(s, 20, 25))
    IN  IF n = 10 /\ d.ok
        THEN [ok |-> TRUE, aware |-> FALSE, days |-> d.days, secs |-> 0, off |-> 0]
        ELSE IF n = 19 /\ d.ok /\ tm.ok
        THEN [ok |-> TRUE, aware |-> FALSE, days |-> d.days, secs |-> tm.secs, off |-> 0]
        ELSE IF n = 25 /\ d.ok /\ tm.ok /\ o.ok
        THEN [ok |-> TRUE, aware |-> TRUE, days |-> d.days, secs |-> tm.secs, off |-> o.off]
        ELSE NotParsed

\* _try_parse_datetime(value): None unless value is a str that parses; a
\* trailing Z is stripped before parsing, so "...Z" yields a naive value.
_try_parse_datetime(value) ==
    IF value.t # "str" THEN NotParsed
    ELSE LET s0 == Strip(value.s)
             s == IF EndsWith(s0, <<"Z">>) THEN SubSeq(s0, 1, Len(s0) - 1) ELSE s0
         IN  fromisoformat(s)

\* the instant of an aware datetime as <<day, second>> in UTC
UtcInstant(dt) ==
    LET x == dt.secs - dt.off
    IN  IF x < 0 THEN <<dt.days - 1, x + 86400>>
        ELSE IF x >= 86400 THEN <<dt.days + 1, x - 86400>>
        ELSE <<dt.days, x>>

\* a < b on datetime: TypeError when exactly one of them is timezone-aware
DatetimeLess(a, b) ==
    IF a.aware # b.aware THEN [raised |-> TRUE, exc |-> "TypeError"]
    ELSE LET ia == IF a.aware THEN UtcInstant(a) ELSE <<a.days, a.secs>>
             ib == IF b.aware THEN UtcInstant(b) ELSE <<b.days, b.secs>>
         IN  [raised |-> FALSE,
              v |-> (ia[1] < ib[1] \/ (ia[1] = ib[1] /\ ia[2] < ib[2]))]

-----------------------------------------------------------------------------
(* Evidence scanner (agent/analyze/deterministic.py)                        *)

\* a walk that stops at the values of the top-level map
WalkTopLevel(obj) ==
    IF obj.t = "dict" THEN [j \in 1..Len(obj.items) |-> obj.items[j].v]
    ELSE <<obj>>

RECURSIVE _walk_values(_), WalkItems(_), WalkList(_)
\* the leaves of a tree, in traversal order
_walk_values(obj) ==
    IF obj.t = "dict" THEN WalkItems(obj.items)
    ELSE IF obj.t = "list" THEN WalkList(obj.items)
    ELSE <<obj>>
WalkItems(items) ==
    IF items = <<>> THEN <<>>
    ELSE _walk_values(Head(items).v) \o WalkItems(Tail(items))
WalkList(items) ==
    IF items = <<>> THEN <<>>
    ELSE _walk_values(Head(items)) \o WalkList(Tail(items))

MissingWords == {<<"n","u","l","l">>, <<"n","o","n","e">>, <<"n","a">>, <<"n","/","a">>}

IsMissingLeaf(v) ==
    \/ v.t = "null"
    \/ (v.t = "str" /\ Strip(v.s) = <<>>)
    \/ (v.t = "str" /\ _lower(Strip(v.s)) \in MissingWords)

_has_missing_value(evidence_payload) ==
    LET leaves == _walk_values(evidence_payload)
    IN  \E i \in 1..Len(leaves) : IsMissingLeaf(leaves[i])

\* the candidates of one kind ("start" or "end"), in key order
DateCandidates(evidence_payload, word) ==
    LET hit(item) == Contains(_lower(item.k), word)
        found == SelectSeq(evidence_payload.items, hit)
    IN  [i \in 1..Len(found) |->
            [key |-> found[i].k, value |-> found[i].v,
             parsed |-> _try_parse_datetime(found[i].v).ok]]

\* the first candidate that parsed, or NotParsed
FirstParsed(cands) ==
    LET ok == {i \in 1..Len(cands) : cands[i].parsed}
    IN  IF ok = {} THEN NotParsed
        ELSE _try_parse_datetime(cands[CHOOSE i \in ok : \A j \in ok : i <= j].value)

\* _extract_possible_dates: (start_dt, end_dt, signals)
_extract_possible_dates(evidence_payload) ==
    LET sc == DateCandidates(evidence_payload, <<"s","t","a","r","t">>)
        ec == DateCandidates(evidence_payload, <<"e","n","d">>)
    IN  [start_dt |-> FirstParsed(sc), end_dt |-> FirstParsed(ec),
         signals |-> [start_candidates |-> sc, end_candidates |-> ec]]

IsNumber(obj) == obj.t \in {"int", "bigint", "float"}

RECURSIVE NumWalk(_, _), NumWalkItems(_, _), NumWalkList(_, _, _)
\* walk(obj, path) of _extract_numeric_signals
NumWalk(obj, path) ==
    IF obj.t = "dict" THEN NumWalkItems(obj.items, path)
    ELSE IF obj.t = "list" THEN NumWalkList(obj.items, path, 0)
    ELSE IF IsNumber(obj) THEN <<[key_path |-> path, value |-> obj]>>
    ELSE <<>>
NumWalkItems(items, path) ==
    IF items = <<>> THEN <<>>
    ELSE NumWalk(Head(items).v,
                 IF path # <<>> THEN path \o <<".">> \o Head(items).k ELSE Head(items).k)
         \o NumWalkItems(Tail(items), path)
NumWalkList(items, path, i) ==
    IF items = <<>> THEN <<>>
    ELSE NumWalk(Head(items), path \o <<"[">> \o IntToStr(i) \o <<"]">>)
         \o NumWalkList(Tail(items), path, i + 1)

_extract_numeric_signals(evidence_payload) == NumWalk(evidence_payload, <<>>)

\* float("12.5"): optional sign, digits, optional point and up to two
\* decimals; anything else is a ValueError
ParseFloat(s0) ==
    LET s1 == Strip(s0)
        neg == s1 # <<>> /\ s1[1] = "-"
        s == IF s1 # <<>> /\ s1[1] \in {"+", "-"} THEN Tail(s1) ELSE s1
        dots == {i \in 1..Len(s) : s[i] = "."}
        p == IF dots = {} THEN Len(s) + 1 ELSE CHOOSE i \in dots : TRUE
        whole == SubSeq(s, 1, p - 1)
        frac == SubSeq(s, p + 1, Len(s))
        mag == 100 * DigitsVal(whole)
               + (IF Len(frac) = 0 THEN 0
                  ELSE IF Len(frac) = 1 THEN 10 * DigitsVal(frac)
                  ELSE DigitsVal(frac))
    IN  IF /\ Cardinality(dots) <= 1 /\ Len(whole) + Len(frac) >= 1
           /\ AllDigits(whole) /\ AllDigits(frac) /\ Len(frac) <= 2
        THEN [raised |-> FALSE, nan |-> FALSE, v100 |-> IF neg THEN -mag ELSE mag]
        ELSE [raised |-> TRUE, exc |-> "ValueError"]

\* float(x): OverflowError for an int beyond the float range (about
\* 1.8 * 10^308), ValueError for a str that is no number, TypeError for
\* None and containers.  A representable magnitude above every threshold
\* of this program is kept as a value above them all.
ToFloat(x) ==
    IF x.t = "float" THEN [raised |-> FALSE, nan |-> FALSE, v100 |-> x.v100]
    ELSE IF x.t = "int" THEN [raised |-> FALSE, nan |-> FALSE, v100 |-> 100 * x.v]
    ELSE IF x.t = "bool"
    THEN [raised |-> FALSE, nan |-> FALSE, v100 |-> IF x.b THEN 100 ELSE 0]
    ELSE IF x.t = "nan" THEN [raised |-> FALSE, nan |-> TRUE, v100 |-> 0]
    ELSE IF x.t = "bigint"
    THEN IF x.exp10 > 308 THEN [raised |-> TRUE, exc |-> "OverflowError"]
         ELSE [raised |-> FALSE, nan |-> FALSE, v100 |-> x.sign * 2000000000]
    ELSE IF x.t = "str" THEN ParseFloat(x.s)
    ELSE [raised |-> TRUE, exc |-> "TypeError"]

\* limits that flag the bounds themselves
OutsideOrOn(v100, lo, hi) == v100 <= 100 * lo \/ v100 >= 100 * hi

\* value < lo or value > hi, value in hundredths
Outside(v100, lo, hi) == v100 < 100 * lo \/ v100 > 100 * hi

_is_out_of_range_signal(key_path, v100) ==
    LET k == _lower(key_path)
    IN  IF Contains(k, <<"s","y","s">>) \/ Contains(k, <<"s","b","p">>) THEN Outside(v100, 50, 250)
        ELSE IF Contains(k, <<"d","i","a">>) \/ Contains(k, <<"d","b","p">>) THEN Outside(v100, 30, 150)
        ELSE IF Contains(k, <<"h","r">>) \/ Contains(k, <<"p","u","l","s","e">>) THEN Outside(v100, 30, 220)
        ELSE IF Contains(k, <<"t","e","m","p">>) THEN Outside(v100, 34, 43)
        ELSE Outside(v100, -1000000, 1000000)

-----------------------------------------------------------------------------
(* Rule engine (agent/analyze/deterministic.py)                             *)

FieldsStr(i) == IF i.fields # <<>> THEN i.fields ELSE <<"(unspecified fields)">>

\* the f-string of _build_query_site_message, as the values it substitutes
_build_query_site_message(i) ==
    [t |-> "fstr", template |-> "query_site", subject_id |-> i.subject_id, domain |-> i.domain,
     fields_str |-> FieldsStr(i), description |-> i.description]

\* the f-string of _build_data_fix_message, as the values it substitutes
_build_data_fix_message(i) ==
    [t |-> "fstr", template |-> "data_fix", subject_id |-> i.subject_id, domain |-> i.domain,
     fields_str |-> FieldsStr(i)]

EvidenceSummary(i) == [subject_id |-> i.subject_id, fields |-> i.fields]

Returned(rec) == [raised |-> FALSE, rec |-> rec]
Raised(exc) == [raised |-> TRUE, exc |-> exc]

\* Rule 1 trigger, lines 266-268, on the dates d that were extracted: the
\* comparison is evaluated before the keyword hit is looked at, so its
\* TypeError escapes either way.
DateCompare(d) ==
    IF d.start_dt.ok /\ d.end_dt.ok THEN DatetimeLess(d.end_dt, d.start_dt)
    ELSE [raised |-> FALSE, v |-> FALSE]

\* lines 264-290, given the extracted dates and the result of the comparison
Rule1(i, d, ae_dates_inconsistent) ==
    [fires |-> _contains_all(i.description, <<<<"e","n","d">>, <<"b","e","f","o","r","e">>, <<"s","t","a","r","t">>>>)
               \/ ae_dates_inconsistent,
     rec |-> [severity |-> "HIGH", action |-> "QUERY_SITE", confidence |-> 90,
              rationale |-> <<"P","o","t","e","n","t","i","a","l"," ","A","E"," ","d","a","t","e"," ","i","n","c","o","n","s","i","s","t","e","n","c","y",":"," ","e","n","d"," ","a","p","p","e","a","r","s"," ","t","o"," ","b","e"," ","b","e","f","o","r","e"," ","s","t","a","r","t",".">>,
              missing_info |-> <<>>, citations |-> <<>>,
              tool_results |->
                  [rule_fired |-> "AE_DATE_INCONSISTENCY",
                   signals |-> [keyword_match |->
                                    _contains_all(i.description,
                                                  <<<<"e","n","d">>, <<"b","e","f","o","r","e">>, <<"s","t","a","r","t">>>>),
                                parsed_start_found |-> d.start_dt.ok,
                                parsed_end_found |-> d.end_dt.ok,
                                end_before_start |-> ae_dates_inconsistent,
                                date_candidates |-> d.signals],
                   evidence_summary |-> EvidenceSummary(i)],
              draft_message |-> _build_query_site_message(i)]]

Rule2(i, evidence) ==
    LET missing_keyword == Contains(_lower(i.description), <<"m","i","s","s","i","n","g">>)
        missing_in_evidence == _has_missing_value(evidence)
    IN  [fires |-> missing_keyword \/ missing_in_evidence,
         rec |-> [severity |-> "MEDIUM", action |-> "DATA_FIX", confidence |-> 70,
                  rationale |-> <<"M","i","s","s","i","n","g"," ","v","a","l","u","e","(","s",")"," ","d","e","t","e","c","t","e","d"," ","f","o","r"," ","o","n","e"," ","o","r"," ","m","o","r","e"," ","c","r","i","t","i","c","a","l"," ","f","i","e","l","d","s",".">>,
                  missing_info |-> <<>>, citations |-> <<>>,
                  tool_results |->
                      [rule_fired |-> "MISSING_CRITICAL_FIELD",
                       signals |-> [keyword_match |-> missing_keyword,
                                    missing_value_detected |-> missing_in_evidence],
                       evidence_summary |-> EvidenceSummary(i)],
                  draft_message |-> _build_data_fix_message(i)]]

\* lines 324-327: float() of every numeric signal ns[j], in order
OorOverflows(ns) == \E j \in 1..Len(ns) : ToFloat(ns[j].value).raised

IsOorSignal(s) == _is_out_of_range_signal(s.key_path, ToFloat(s.value).v100)

\* the flagged signals cut to five before they are counted
OorValuesCapped(ns) == Slice(SelectSeq(ns, IsOorSignal), 1, 5)

\* line 324-327: the signals that are out of range, in traversal order
OorValues(ns) == SelectSeq(ns, IsOorSignal)

\* lines 320-347, given the out-of-range signals
Rule3(i, oor_values) ==
    [fires |-> Contains(_lower(i.description), <<"o","u","t"," ","o","f"," ","r","a","n","g","e">>) \/ oor_values # <<>>,
     rec |-> [severity |-> "MEDIUM", action |-> "QUERY_SITE", confidence |-> 70,
              rationale |-> <<"P","o","t","e","n","t","i","a","l"," ","o","u","t","-","o","f","-","r","a","n","g","e"," ","v","a","l","u","e","(","s",")"," ","d","e","t","e","c","t","e","d"," ","i","n"," ","e","v","i","d","e","n","c","e",".">>,
              missing_info |-> <<>>, citations |-> <<>>,
              tool_results |->
                  [rule_fired |-> "OUT_OF_RANGE",
                   signals |-> [keyword_match |->
                                    Contains(_lower(i.description), <<"o","u","t"," ","o","f"," ","r","a","n","g","e">>),
                                out_of_range_values |-> Slice(oor_values, 1, 5),
                                out_of_range_count |-> Len(oor_values)],
                   evidence_summary |-> EvidenceSummary(i)],
              draft_message |-> _build_query_site_message(i)]]

Rule4(i) ==
    [fires |-> Contains(_lower(i.description), <<"d","u","p","l","i","c","a","t","e">>),
     rec |-> [severity |-> "LOW", action |-> "DATA_FIX", confidence |-> 60,
              rationale |-> <<"P","o","s","s","i","b","l","e"," ","d","u","p","l","i","c","a","t","e"," ","r","e","c","o","r","d"," ","i","n","d","i","c","a","t","e","d"," ","b","y"," ","t","h","e"," ","i","s","s","u","e"," ","d","e","s","c","r","i","p","t","i","o","n",".">>,
              missing_info |-> <<>>, citations |-> <<>>,
              tool_results |->
                  [rule_fired |-> "DUPLICATE_RECORD",
                   signals |-> [keyword_match |-> TRUE],
                   evidence_summary |-> EvidenceSummary(i)],
              draft_message |-> _build_data_fix_message(i)]]

Fallback(i) ==
    [severity |-> "LOW", action |-> "MEDICAL_REVIEW", confidence |-> 30,
     rationale |-> <<"I","n","s","u","f","f","i","c","i","e","n","t"," ","d","e","t","e","r","m","i","n","i","s","t","i","c"," ","s","i","g","n","a","l","s"," ","t","o"," ","m","a","k","e"," ","a"," ","s","t","r","o","n","g"," ","r","e","c","o","m","m","e","n","d","a","t","i","o","n",".">>,
     missing_info |-> <<<<"C","o","n","f","i","r","m"," ","w","h","i","c","h"," ","r","e","c","o","r","d","s","/","v","i","s","i","t","s"," ","a","r","e"," ","i","m","p","a","c","t","e","d",".">>,
                        <<"P","r","o","v","i","d","e"," ","r","e","l","e","v","a","n","t"," ","s","t","a","r","t","/","e","n","d"," ","d","a","t","e","s"," ","o","r"," ","m","e","a","s","u","r","e","m","e","n","t"," ","v","a","l","u","e","s",".">>,
                        <<"C","o","n","f","i","r","m"," ","t","h","e"," ","e","x","p","e","c","t","e","d"," ","r","u","l","e","/","s","p","e","c","i","f","i","c","a","t","i","o","n"," ","f","o","r"," ","t","h","i","s"," ","c","h","e","c","k",".">>>>,
     citations |-> <<>>,
     tool_results |->
         [rule_fired |-> "FALLBACK",
          signals |-> [keyword_match |-> FALSE],
          evidence_summary |-> EvidenceSummary(i)],
     draft_message |-> None]

\* the return statements of analyze_issue in their order: first match wins
FirstMatch(i, compared, rule1, rule2, overflows, rule3, rule4) ==
    IF compared.raised THEN Raised(compared.exc)
    ELSE IF rule1.fires THEN Returned(rule1.rec)
    ELSE IF rule2.fires THEN Returned(rule2.rec)
    ELSE IF overflows THEN Raised("OverflowError")
    ELSE IF rule3.fires THEN Returned(rule3.rec)
    ELSE IF rule4.fires THEN Returned(rule4.rec)
    ELSE Returned(Fallback(i))

\* the rules on the issue, its extracted dates d, the result of comparing
\* them, and its numeric signals ns
ApplyRules(i, d, compared, ns) ==
    FirstMatch(i, compared, Rule1(i, d, compared.v), Rule2(i, i.evidence_payload),
               OorOverflows(ns), Rule3(i, OorValues(ns)), Rule4(i))

WithDates(i, d) ==
    ApplyRules(i, d, DateCompare(d), _extract_numeric_signals(i.evidence_payload))

\* analyze_issue(issue)
analyze_issue(i) == WithDates(i, _extract_possible_dates(i.evidence_payload))

-----------------------------------------------------------------------------
(* Inputs of the rule engine                                                *)

Descriptions ==
    { <<>>,
      <<"A","E"," ","e","n","d"," ","d","a","t","e"," ","i","s"," ","b","e","f","o","r","e"," ","s","t","a","r","t"," ","d","a","t","e">>,
      <<"M","i","s","s","i","n","g"," ","r","e","q","u","i","r","e","d"," ","f","i","e","l","d"," ","A","E","S","E","R">>,
      <<"L","a","b"," ","v","a","l","u","e"," ","o","u","t"," ","o","f"," ","r","a","n","g","e">>,
      <<"P","o","s","s","i","b","l","e"," ","d","u","p","l","i","c","a","t","e"," ","r","e","c","o","r","d">>,
      <<"E","n","d"," ","b","e","f","o","r","e"," ","s","t","a","r","t",","," ","v","a","l","u","e"," ","M","i","s","s","i","n","g">>,
      <<"P","e","n","d","i","n","g"," ","r","e","v","i","e","w">>,
      <<"D","u","p","l","i","c","a","t","e"," ","e","n","t","r","y",","," ","o","u","t"," ","o","f"," ","r","a","n","g","e">>,
      <<"U","n","c","l","e","a","r"," ","n","a","r","r","a","t","i","v","e">> }

EvEmpty == JDict(<<>>)
EvEndBeforeStart ==
    JDict(<<KV(<<"s","t","a","r","t","_","d","a","t","e">>, JStr(<<"2","0","2","4","-","0","1","-","1","5">>)), KV(<<"e","n","d","_","d","a","t","e">>, JStr(<<"2","0","2","4","-","0","1","-","1","0">>))>>)
EvEndAfterStart ==
    JDict(<<KV(<<"s","t","a","r","t","_","d","a","t","e">>, JStr(<<"2","0","2","4","-","0","1","-","1","0">>)), KV(<<"e","n","d","_","d","a","t","e">>, JStr(<<"2","0","2","4","-","0","1","-","1","5">>))>>)
EvUnparseableStart ==
    JDict(<<KV(<<"s","t","a","r","t","_","d","a","t","e">>, JStr(<<"t","b","d">>)), KV(<<"e","n","d","_","d","a","t","e">>, JStr(<<"2","0","2","4","-","0","1","-","1","0">>))>>)
EvAwareStartNaiveEnd ==
    JDict(<<KV(<<"s","t","a","r","t","_","d","a","t","e">>, JStr(<<"2","0","2","4","-","0","3","-","0","1","T","0","0",":","3","0",":","0","0","+","0","2",":","0","0">>)),
            KV(<<"e","n","d","_","d","a","t","e">>, JStr(<<"2","0","2","4","-","0","2","-","2","9">>))>>)
EvNaiveStartAwareEnd ==
    JDict(<<KV(<<"s","t","a","r","t","_","d","a","t","e">>, JStr(<<"2","0","2","4","-","0","1","-","1","5">>)),
            KV(<<"e","n","d","_","d","a","t","e">>, JStr(<<"2","0","2","4","-","0","1","-","1","0","T","0","0",":","0","0",":","0","0","-","0","5",":","0","0">>))>>)
EvBothAware ==
    JDict(<<KV(<<"s","t","a","r","t","_","d","a","t","e">>, JStr(<<"2","0","2","4","-","0","3","-","0","1","T","0","0",":","3","0",":","0","0","+","0","2",":","0","0">>)),
            KV(<<"e","n","d","_","d","a","t","e">>, JStr(<<"2","0","2","4","-","0","2","-","2","9","T","2","3",":","0","0",":","0","0","+","0","0",":","0","0">>))>>)
EvZuluStart ==
    JDict(<<KV(<<"A","E","_","S","t","a","r","t">>, JStr(<<"2","0","2","4","-","0","1","-","1","5","T","1","2",":","0","0",":","0","0","Z">>)),
            KV(<<"A","E","_","E","n","d">>, JStr(<<" ","2","0","2","4","-","0","1","-","1","5","T","1","1",":","0","0",":","0","0"," ">>))>>)
EvNullLeaf == JDict(<<KV(<<"A","E","S","E","R">>, JNull)>>)
EvDeepNull ==
    JDict(<<KV(<<"v","i","s","i","t">>, JDict(<<KV(<<"l","a","b","s">>, JList(<<JDict(<<KV(<<"r","e","s","u","l","t">>, JNull)>>)>>))>>))>>)
EvMissingWord ==
    JDict(<<KV(<<"s","t","a","r","t","_","d","a","t","e">>, JInt(20240115)), KV(<<"e","n","d","_","d","a","t","e">>, JStr(<<" ","N","/","A"," ">>))>>)
EvLabValue == JDict(<<KV(<<"L","B","O","R","R","E","S">>, JFloat(420))>>)
EvHeartRateHigh == JDict(<<KV(<<"h","r">>, JInt(221))>>)
EvHeartRateEdge == JDict(<<KV(<<"h","r">>, JInt(220))>>)
EvVitals ==
    JDict(<<KV(<<"v","i","t","a","l","s">>, JList(<<JDict(<<KV(<<"s","y","s","b","p">>, JInt(300))>>),
                                  JDict(<<KV(<<"t","e","m","p">>, JFloat(3660))>>),
                                  JDict(<<KV(<<"p","u","l","s","e">>, JInt(10))>>)>>)),
            KV(<<"f","l","a","g">>, JBool(TRUE))>>)
EvHugeInt == JDict(<<KV(<<"v","a","l","u","e">>, JBig(1, 400))>>)
EvHugeIntAndBlank == JDict(<<KV(<<"v","a","l","u","e">>, JBig(1, 400)), KV(<<"n","o","t","e">>, JStr(<<" ">>))>>)
EvLargeInt == JDict(<<KV(<<"c","o","u","n","t">>, JBig(-1, 30))>>)

Evidences ==
    { EvEmpty, EvEndBeforeStart, EvEndAfterStart, EvUnparseableStart,
      EvAwareStartNaiveEnd, EvNaiveStartAwareEnd, EvBothAware, EvZuluStart,
      EvNullLeaf, EvDeepNull, EvMissingWord, EvLabValue, EvHeartRateHigh,
      EvHeartRateEdge, EvVitals, EvHugeInt, EvHugeIntAndBlank, EvLargeInt }

\* subject, domain and affected fields of an issue
Headers ==
    { [subject_id |-> "SUBJ-001", domain |-> <<"A","E">>, fields |-> <<"AESTDTC", "AEENDTC">>],
      [subject_id |-> "SUBJ-002", domain |-> <<"V","S">>, fields |-> <<>>] }

EngineIssues ==
    { [subject_id |-> h.subject_id, domain |-> h.domain, fields |-> h.fields,
       description |-> d, evidence_payload |-> e] :
      h \in Headers, d \in Descriptions, e \in Evidences }

Idle == [kind |-> "none"]

-----------------------------------------------------------------------------
(* SpecEngine: one call of analyze_issue on an arbitrary issue              *)

EngineVars == <<issue, outcome>>
RefineVars == <<refineIn, refineOut>>
SearchVars == <<searchIn, searchOut>>
ApiVars == <<ISSUES, RUNS, AUDIT, DOCUMENTS, DECISIONS, env, response, trace>>

InitEngine ==
    /\ issue \in EngineIssues
    /\ outcome = Idle
    /\ refineIn = Idle /\ refineOut = Idle
    /\ searchIn = Idle /\ searchOut = Idle
    /\ ISSUES = <<>> /\ RUNS = <<>> /\ AUDIT = <<>> /\ DOCUMENTS = <<>>
    /\ DECISIONS = <<>>
    /\ env = Idle /\ response = Idle /\ trace = <<>>

AnalyzeIssue ==
    /\ outcome = Idle
    /\ outcome' = [kind |-> "done", result |-> analyze_issue(issue)]
    /\ UNCHANGED <<issue, RefineVars, SearchVars, ApiVars>>

NextEngine == AnalyzeIssue

SpecEngine == InitEngine /\ [][NextEngine]_vars

-----------------------------------------------------------------------------
(* Claims about the rule engine                                             *)

EngineDone == outcome # Idle

\* C1: analyze_issue is total: for every well-typed issue the call returns a
\* recommendation and raises nothing.
C1_AnalyzeIssueNeverRaises ==
    EngineDone => ~outcome.result.raised

\* the trigger conditions of the rules, as the specification states them
DateTrigger(i) ==
    \/ _contains_all(i.description, <<<<"e","n","d">>, <<"b","e","f","o","r","e">>, <<"s","t","a","r","t">>>>)
    \/ LET d == _extract_possible_dates(i.evidence_payload)
       IN  /\ d.start_dt.ok /\ d.end_dt.ok
           /\ LET c == DatetimeLess(d.end_dt, d.start_dt) IN ~c.raised /\ c.v
MissingTrigger(i) ==
    \/ Contains(_lower(i.description), <<"m","i","s","s","i","n","g">>)
    \/ _has_missing_value(i.evidence_payload)
RangeTrigger(i) ==
    \/ Contains(_lower(i.description), <<"o","u","t"," ","o","f"," ","r","a","n","g","e">>)
    \/ LET ns == _extract_numeric_signals(i.evidence_payload)
       IN  \E j \in 1..Len(ns) :
               /\ ~ToFloat(ns[j].value).raised
               /\ _is_out_of_range_signal(ns[j].key_path, ToFloat(ns[j].value).v100)
DuplicateTrigger(i) == Contains(_lower(i.description), <<"d","u","p","l","i","c","a","t","e">>)

FirstRule(i) ==
    IF DateTrigger(i) THEN "AE_DATE_INCONSISTENCY"
    ELSE IF MissingTrigger(i) THEN "MISSING_CRITICAL_FIELD"
    ELSE IF RangeTrigger(i) THEN "OUT_OF_RANGE"
    ELSE IF DuplicateTrigger(i) THEN "DUPLICATE_RECORD"
    ELSE "FALLBACK"

\* C2: for every issue exactly one rule fires, and it is the first rule in
\* the fixed order whose trigger condition holds.
C2_FirstMatchingRuleFires ==
    EngineDone =>
        /\ ~outcome.result.raised
        /\ outcome.result.rec.tool_results.rule_fired = FirstRule(issue)

\* the precedence among the issues on which the call returns
C2_PrecedenceWhenReturned ==
    (EngineDone /\ ~outcome.result.raised) =>
        outcome.result.rec.tool_results.rule_fired = FirstRule(issue)

-----------------------------------------------------------------------------
(* Refinement stage (agent/analyze/llm.py)                                  *)
(*                                                                         *)
(* The environment e of a call: the variables LLM_ENABLED and              *)
(* OPENAI_API_KEY (Unset or a str), whether the openai package imports,    *)
(* whether OpenAI(api_key=...) raises, whether building the prompt raises, *)
(* and what the external call does: it raises, or it returns a message     *)
(* whose content is None, text that is not JSON, or the text of a JSON     *)
(* value.  A JSON object of the refiner is a function from key to value.   *)

Unset == [t |-> "unset"]
Absent == [t |-> "absent"]

\* os.getenv(name, "").strip().lower() in ("1", "true", "yes")
EnvFlag(value) ==
    LET v == IF value = Unset THEN <<>> ELSE value.s
    IN  _lower(Strip(v)) \in {<<"1">>, <<"t","r","u","e">>, <<"y","e","s">>}

_is_llm_enabled(e) == EnvFlag(e.LLM_ENABLED)

\* `not api_key`
NoApiKey(e) == e.OPENAI_API_KEY = Unset \/ e.OPENAI_API_KEY.s = <<>>

\* _get_openai_client(force): "none", "client", or the exception of the
\* constructor, which only an ImportError handler surrounds
_get_openai_client(force, e) ==
    IF ~force /\ ~_is_llm_enabled(e) THEN [kind |-> "none"]
    ELSE IF ~e.openai_installed THEN [kind |-> "none"]
    ELSE IF NoApiKey(e) THEN [kind |-> "none"]
    ELSE IF e.client_ctor_raises THEN [kind |-> "raises", exc |-> "OpenAIError"]
    ELSE [kind |-> "client"]

\* mutant of LlmGet: a falsy value ("" or []) counts as not supplied
LlmGetTruthy(llm_output, key) ==
    IF /\ Has(llm_output, key) /\ llm_output[key].t # "null"
       /\ ~(llm_output[key].t = "str" /\ llm_output[key].s = <<>>)
       /\ ~(llm_output[key].t = "list" /\ llm_output[key].items = <<>>)
    THEN llm_output[key] ELSE None

\* llm_output.get(key): None for a missing key and for a JSON null
LlmGet(llm_output, key) ==
    IF Has(llm_output, key) /\ llm_output[key].t # "null" THEN llm_output[key] ELSE None

\* mutant of Clamp: the lower bound is not enforced
ClampUpperOnly(c) == IF ~c.nan /\ c.v100 < 100 THEN c.v100 ELSE 100

\* max(0.0, min(1.0, c)) with Python's min and max: min(1.0, c) is 1.0
\* unless c < 1.0, max(0.0, x) is 0.0 unless x > 0.0 (every comparison
\* with NaN is false)
Clamp(c) ==
    LET inner == IF ~c.nan /\ c.v100 < 100 THEN c.v100 ELSE 100
    IN  IF inner > 0 THEN inner ELSE 0

\* a list[str] as pydantic accepts it
IsStrList(x) == x.t = "list" /\ \A j \in 1..Len(x.items) : x.items[j].t = "str"

\* AgentRecommendation(...): the field constraints of the schema
ValidRecommendation(confidence, rationale, missing_info, draft_message) ==
    /\ confidence >= 0 /\ confidence <= 100
    /\ rationale.t = "str"
    /\ IsStrList(missing_info)
    /\ draft_message.t \in {"str", "fstr", "None"}

AsJsonList(strs) == JList([j \in 1..Len(strs) |-> JStr(strs[j])])

\* mutant of MergedSeverity: a severity of the refiner is merged
MergedSeverityFromRefiner(deterministic, llm_output) ==
    IF Has(llm_output, "severity") THEN "LOW" ELSE deterministic.severity

\* the severity and action of a merged recommendation
MergedSeverity(deterministic, llm_output) == deterministic.severity
MergedAction(deterministic, llm_output) == deterministic.action

\* a merge that starts tool_results afresh
FreshToolResults(deterministic, model_version) ==
    [llm_enhanced |-> TRUE, llm_model |-> model_version,
     llm_rationale_original |-> deterministic.rationale,
     llm_confidence_original |-> deterministic.confidence]

\* tool_results of a merged recommendation: a copy with the audit keys
MergedToolResults(deterministic, model_version) ==
    Put(Put(Put(Put(deterministic.tool_results,
        "llm_enhanced", TRUE),
        "llm_model", model_version),
        "llm_rationale_original", deterministic.rationale),
        "llm_confidence_original", deterministic.confidence)

\* the deterministic recommendation object after a merge: the merge works
\* on a copy of tool_results, so the object is as before
InputAfterMerge(deterministic, model_version) == deterministic

\* the value a merged field takes: the refiner's unless it is None
MergedField(llm_output, key, deterministic_value) ==
    IF LlmGet(llm_output, key) # None THEN LlmGet(llm_output, key)
    ELSE deterministic_value

\* the confidence handed to the constructor
MergedConfidence(c) == Clamp(c)

\* lines 318-322: the refiner's confidence through float(), else the
\* deterministic one
AdjustedConfidence(deterministic, llm_output) ==
    IF LlmGet(llm_output, "confidence_adjusted") # None
    THEN ToFloat(LlmGet(llm_output, "confidence_adjusted"))
    ELSE [raised |-> FALSE, nan |-> FALSE, v100 |-> deterministic.confidence]

\* lines 338-349: AgentRecommendation(...) of the merged values; float()
\* and the schema's validation raise
MergedRecommendation(deterministic, llm_output, model_version, rationale, conf, draft_message, missing_info) ==
    IF conf.raised THEN Raised(conf.exc)
    ELSE IF ~ValidRecommendation(MergedConfidence(conf), rationale, missing_info,
                                 draft_message)
    THEN Raised("ValidationError")
    ELSE [raised |-> FALSE,
          rec |-> [severity |-> MergedSeverity(deterministic, llm_output),
                   action |-> MergedAction(deterministic, llm_output),
                   confidence |-> MergedConfidence(conf),
                   rationale |-> rationale.s,
                   missing_info |-> [j \in 1..Len(missing_info.items) |->
                                        missing_info.items[j].s],
                   citations |-> deterministic.citations,
                   tool_results |-> MergedToolResults(deterministic, model_version),
                   draft_message |-> draft_message],
          input_after |-> InputAfterMerge(deterministic, model_version)]

\* _merge_recommendations(deterministic, llm_output, model_version)
_merge_recommendations(deterministic, llm_output, model_version) ==
    MergedRecommendation(
        deterministic, llm_output, model_version,
        MergedField(llm_output, "rationale_enhanced", JStr(deterministic.rationale)),
        AdjustedConfidence(deterministic, llm_output),
        MergedField(llm_output, "draft_message_enhanced", deterministic.draft_message),
        MergedField(llm_output, "missing_info_enhanced",
                    AsJsonList(deterministic.missing_info)))

EnhancementKeys ==
    {"rationale_enhanced", "confidence_adjusted", "draft_message_enhanced",
     "missing_info_enhanced"}

\* mutant of HasEnhancementField: any key at all passes the gate
HasAnyField(llm_output) == DOMAIN llm_output # {}

\* lines 138-152: at least one enhancement key is in the object
HasEnhancementField(llm_output) == \E key \in EnhancementKeys : Has(llm_output, key)

\* what a call returns: the recommendation, whether it is the very object
\* that was passed in, and that object's content after the call
Original(deterministic_rec) ==
    [raised |-> FALSE, rec |-> deterministic_rec, same_object |-> TRUE,
     input_after |-> deterministic_rec]

\* the outcome of the merge m inside the try block; on_error is what an
\* exception of the merge leads to
AfterMerge(m, on_error) ==
    IF m.raised THEN on_error
    ELSE [raised |-> FALSE, rec |-> m.rec, same_object |-> FALSE,
          input_after |-> m.input_after]

\* the exception of the merge m
Escapes(m) == IF m.raised THEN Raised(m.exc) ELSE m

\* mutant of TryEnhance: the handler does not cover the merge
TryEnhanceMergeUncaught(deterministic_rec, model_version, e) ==
    IF e.prompt_raises THEN Original(deterministic_rec)
    ELSE IF e.call.kind = "raises" THEN Original(deterministic_rec)
    ELSE IF e.call.content.kind # "json" THEN Original(deterministic_rec)
    ELSE IF e.call.content.value.t # "object" THEN Original(deterministic_rec)
    ELSE IF ~HasEnhancementField(e.call.content.value.d) THEN Original(deterministic_rec)
    ELSE AfterMerge(_merge_recommendations(deterministic_rec, e.call.content.value.d,
                                           model_version),
                    Escapes(_merge_recommendations(deterministic_rec,
                                                   e.call.content.value.d,
                                                   model_version)))

\* the try block of enhance_with_llm, lines 113-166: every Exception in it
\* ends in `return deterministic_rec`
TryEnhance(deterministic_rec, model_version, e) ==
    IF e.prompt_raises THEN Original(deterministic_rec)
    ELSE IF e.call.kind = "raises" THEN Original(deterministic_rec)
    ELSE IF e.call.content.kind # "json" THEN Original(deterministic_rec)
    ELSE IF e.call.content.value.t # "object" THEN Original(deterministic_rec)
    ELSE IF ~HasEnhancementField(e.call.content.value.d) THEN Original(deterministic_rec)
    ELSE AfterMerge(_merge_recommendations(deterministic_rec, e.call.content.value.d,
                                           model_version),
                    Original(deterministic_rec))

\* enhance_with_llm(issue, deterministic_rec, model_version, force_enable)
enhance_with_llm(deterministic_rec, model_version, force_enable, e) ==
    IF ~force_enable /\ ~_is_llm_enabled(e) THEN Original(deterministic_rec)
    ELSE LET client == _get_openai_client(force_enable, e)
         IN  IF client.kind = "raises" THEN Raised(client.exc)
             ELSE IF client.kind = "none" THEN Original(deterministic_rec)
             ELSE TryEnhance(deterministic_rec, model_version, e)

-----------------------------------------------------------------------------
(* Inputs of the refinement stage                                           *)

EmptyObject == [k \in {} |-> JNull]

\* a JSON object from the value each key takes, Absent for a key left out
ObjectOf(r, c, d, m, x) ==
    LET given == [rationale_enhanced |-> r, confidence_adjusted |-> c,
                  draft_message_enhanced |-> d, missing_info_enhanced |-> m,
                  action |-> IF x THEN JStr(<<"I","G","N","O","R","E">>) ELSE Absent,
                  severity |-> IF x THEN JStr(<<"L","O","W">>) ELSE Absent]
        keys == {k \in DOMAIN given : given[k] # Absent}
    IN  [k \in keys |-> given[k]]

RationaleValues == {Absent, JNull, JStr(<<>>), JStr(<<"R","e","f","i","n","e","d"," ","r","a","t","i","o","n","a","l","e",".">>), JInt(5)}
ConfidenceValues ==
    {Absent, JNull, JFloat(-50), JFloat(0), JFloat(55), JFloat(100), JFloat(150),
     JInt(2), JBool(TRUE), JStr(<<" ","0",".","5">>), JStr(<<"h","i","g","h">>), JNaN, JList(<<>>)}
DraftValues == {Absent, JNull, JStr(<<>>), JStr(<<"R","e","f","i","n","e","d"," ","d","r","a","f","t",".">>)}
MissingInfoValues ==
    {Absent, JNull, JList(<<>>), JList(<<JStr(<<"V","i","s","i","t"," ","d","a","t","e">>)>>), JStr(<<"V","i","s","i","t"," ","d","a","t","e">>)}

RefinerObjects ==
    { ObjectOf(r, c, d, m, x) :
        r \in RationaleValues, c \in ConfidenceValues, d \in DraftValues,
        m \in MissingInfoValues, x \in BOOLEAN }

JsonContent(value) == [kind |-> "content", content |-> [kind |-> "json", value |-> value]]
ObjectContent(obj) == JsonContent([t |-> "object", d |-> obj])

\* an environment in which every stage before the response works
WorkingEnv(call) ==
    [LLM_ENABLED |-> Unset, OPENAI_API_KEY |-> JStr(<<"s","k","-","t","e","s","t">>),
     openai_installed |-> TRUE, client_ctor_raises |-> FALSE,
     prompt_raises |-> FALSE, call |-> call]

SampleObject == ObjectOf(JStr(<<"R","e","f","i","n","e","d"," ","r","a","t","i","o","n","a","l","e",".">>), JFloat(55), Absent, Absent, FALSE)

\* environments in which one stage does not work
FailingEnvs ==
    { [WorkingEnv(ObjectContent(SampleObject)) EXCEPT !.openai_installed = FALSE],
      [WorkingEnv(ObjectContent(SampleObject)) EXCEPT !.OPENAI_API_KEY = Unset],
      [WorkingEnv(ObjectContent(SampleObject)) EXCEPT !.OPENAI_API_KEY = JStr(<<>>)],
      [WorkingEnv(ObjectContent(SampleObject)) EXCEPT !.client_ctor_raises = TRUE],
      [WorkingEnv(ObjectContent(SampleObject)) EXCEPT !.prompt_raises = TRUE],
      WorkingEnv([kind |-> "raises"]),
      WorkingEnv([kind |-> "content", content |-> [kind |-> "none"]]),
      WorkingEnv([kind |-> "content", content |-> [kind |-> "not_json"]]),
      WorkingEnv(JsonContent(JList(<<JStr(<<"R","e","f","i","n","e","d"," ","r","a","t","i","o","n","a","l","e",".">>)>>))),
      WorkingEnv(JsonContent(JInt(1))) }

LlmEnabledValues == {Unset, JStr(<<"1">>), JStr(<<" ","T","r","u","e"," ">>), JStr(<<"0">>), JStr(<<>>)}

\* deterministic recommendations: one with a draft message and no missing
\* info, one with missing info and no draft message, one with citations
RefineIssues ==
    { [subject_id |-> "SUBJ-001", domain |-> <<"A","E">>, fields |-> <<"AESTDTC", "AEENDTC">>,
       description |-> <<"A","E"," ","e","n","d"," ","d","a","t","e"," ","i","s"," ","b","e","f","o","r","e"," ","s","t","a","r","t"," ","d","a","t","e">>,
       evidence_payload |-> EvEndBeforeStart],
      [subject_id |-> "SUBJ-002", domain |-> <<"V","S">>, fields |-> <<>>,
       description |-> <<"U","n","c","l","e","a","r"," ","n","a","r","r","a","t","i","v","e">>, evidence_payload |-> EvLabValue] }

WithCitation(rec) ==
    [rec EXCEPT !.citations = <<"doc-1">>,
                !.tool_results =
                    Put(Put(@, "rag_method", "keyword"),
                        "citation_hits",
                        <<[doc_id |-> "doc-1", title |-> <<"A","E"," ","d","a","t","e"," ","c","h","e","c","k","s">>,
                           source |-> <<"D","R","P">>, score |-> 200]>>)]

DeterministicRecs ==
    { analyze_issue(i).rec : i \in RefineIssues }
    \cup { WithCitation(analyze_issue(i).rec) :
             i \in {j \in RefineIssues : j.subject_id = "SUBJ-001"} }

ModelVersions == {"gpt-4o-mini", "gpt-4"}

RefineInputs ==
    { [rec |-> rec, model_version |-> "gpt-4o-mini", force_enable |-> TRUE,
       e |-> WorkingEnv(ObjectContent(obj))] :
        rec \in DeterministicRecs, obj \in RefinerObjects }
    \cup
    { [rec |-> rec, model_version |-> mv, force_enable |-> f,
       e |-> [e0 EXCEPT !.LLM_ENABLED = en]] :
        rec \in DeterministicRecs, mv \in ModelVersions, f \in BOOLEAN,
        e0 \in FailingEnvs \cup {WorkingEnv(ObjectContent(SampleObject)),
                                 WorkingEnv(ObjectContent(EmptyObject))},
        en \in LlmEnabledValues }

-----------------------------------------------------------------------------
(* SpecRefine: one call of enhance_with_llm                                 *)

InitRefine ==
    /\ refineIn \in RefineInputs
    /\ refineOut = Idle
    /\ issue = Idle /\ outcome = Idle
    /\ searchIn = Idle /\ searchOut = Idle
    /\ ISSUES = <<>> /\ RUNS = <<>> /\ AUDIT = <<>> /\ DOCUMENTS = <<>>
    /\ DECISIONS = <<>>
    /\ env = Idle /\ response = Idle /\ trace = <<>>

Enhance ==
    /\ refineOut = Idle
    /\ refineOut' = [kind |-> "done",
                     result |-> enhance_with_llm(refineIn.rec, refineIn.model_version,
                                                 refineIn.force_enable, refineIn.e)]
    /\ UNCHANGED <<refineIn, EngineVars, SearchVars, ApiVars>>

NextRefine == Enhance

SpecRefine == InitRefine /\ [][NextRefine]_vars

-----------------------------------------------------------------------------
(* Claims about the refinement stage                                        *)

RefineDone == refineOut # Idle

\* the call gets as far as the try block
ReachesTry(in) ==
    /\ in.force_enable \/ EnvFlag(in.e.LLM_ENABLED)
    /\ in.e.openai_installed
    /\ in.e.OPENAI_API_KEY # Unset /\ in.e.OPENAI_API_KEY.s # <<>>
    /\ ~in.e.client_ctor_raises

\* the external call succeeded and its content is the text of a JSON object
GotObject(in) ==
    /\ ReachesTry(in) /\ ~in.e.prompt_raises
    /\ in.e.call.kind = "content" /\ in.e.call.content.kind = "json"
    /\ in.e.call.content.value.t = "object"

RefinerObject(in) == in.e.call.content.value.d

\* the key is in the object
Supplied(in, key) == key \in DOMAIN RefinerObject(in)
\* the key is in the object with a value other than null
SuppliedValue(in, key) == Supplied(in, key) /\ RefinerObject(in)[key].t # "null"

SuppliesSome(in) == \E key \in EnhancementKeys : Supplied(in, key)

\* a supplied value the merged recommendation cannot hold: a confidence
\* float() rejects, a rationale or draft message that is no str, a missing
\* info that is no list of str
Unmergeable(in) ==
    LET o == RefinerObject(in)
    IN  \/ /\ SuppliedValue(in, "confidence_adjusted")
           /\ \/ o["confidence_adjusted"].t \in {"list", "dict"}
              \/ (o["confidence_adjusted"].t = "str"
                  /\ ParseFloat(o["confidence_adjusted"].s).raised)
        \/ SuppliedValue(in, "rationale_enhanced") /\ o["rationale_enhanced"].t # "str"
        \/ SuppliedValue(in, "draft_message_enhanced")
           /\ o["draft_message_enhanced"].t # "str"
        \/ SuppliedValue(in, "missing_info_enhanced")
           /\ ~IsStrList(o["missing_info_enhanced"])

\* the stage in which the call fails: prompt construction, the external
\* call, response parsing or the merge; "none" otherwise
FailedStage(in) ==
    IF ~ReachesTry(in) THEN "none"
    ELSE IF in.e.prompt_raises THEN "prompt"
    ELSE IF in.e.call.kind = "raises" THEN "call"
    ELSE IF in.e.call.content.kind # "json" \/ in.e.call.content.value.t # "object"
    THEN "parse"
    ELSE IF SuppliesSome(in) /\ Unmergeable(in) THEN "merge"
    ELSE "none"

Marked(rec) == Has(rec.tool_results, "llm_enhanced")

\* the confidence a number stands for after clamping into [0, 1]
Clamped(v100) == IF v100 < 0 THEN 0 ELSE IF v100 > 100 THEN 100 ELSE v100

\* C4: every recommendation returned by enhance_with_llm (and the
\* deterministic one it was given) has 0 <= confidence <= 1, and a numeric
\* confidence of the refiner is merged clamped into [0, 1].
C4_ConfidenceInBounds ==
    RefineDone =>
        /\ refineIn.rec.confidence \in 0..100
        /\ ~refineOut.result.raised => refineOut.result.rec.confidence \in 0..100
        /\ ( /\ GotObject(refineIn) /\ ~Unmergeable(refineIn)
             /\ SuppliedValue(refineIn, "confidence_adjusted")
             /\ RefinerObject(refineIn)["confidence_adjusted"].t \in {"int", "float"} )
           => /\ ~refineOut.result.raised
              /\ refineOut.result.rec.confidence =
                     Clamped(ToFloat(RefinerObject(refineIn)["confidence_adjusted"]).v100)

C4_Witness ==
    /\ RefineDone /\ GotObject(refineIn)
    /\ Supplied(refineIn, "confidence_adjusted")
    /\ RefinerObject(refineIn)["confidence_adjusted"] = JFloat(150)
    /\ ~refineOut.result.raised
    /\ Marked(refineOut.result.rec)
    /\ refineOut.result.rec.confidence = 100

\* C5: when prompt construction, the external call, response parsing or the
\* merge fails, enhance_with_llm raises nothing and returns the original
\* recommendation unchanged and unmarked; no call modifies its input object.
C5_FailureReturnsOriginal ==
    RefineDone =>
        /\ FailedStage(refineIn) # "none" =>
              /\ ~refineOut.result.raised
              /\ refineOut.result.rec = refineIn.rec
              /\ ~Marked(refineOut.result.rec)
        /\ ~refineOut.result.raised => refineOut.result.input_after = refineIn.rec

C5_Witness ==
    /\ RefineDone /\ FailedStage(refineIn) = "merge"
    /\ ~refineOut.result.raised
    /\ refineOut.result.same_object
    /\ refineOut.result.rec = refineIn.rec

\* C6: when the call succeeds but the JSON object supplies none of the four
\* enhancement fields, the original recommendation is returned unmarked; the
\* marker is present only when a recognized field was supplied.
C6_ValidationGate ==
    RefineDone =>
        /\ (GotObject(refineIn) /\ ~SuppliesSome(refineIn)) =>
              /\ ~refineOut.result.raised
              /\ refineOut.result.rec = refineIn.rec
              /\ ~Marked(refineOut.result.rec)
        /\ (~refineOut.result.raised /\ Marked(refineOut.result.rec)) =>
              (GotObject(refineIn) /\ SuppliesSome(refineIn))

C6_Witness ==
    /\ RefineDone /\ GotObject(refineIn)
    /\ DOMAIN RefinerObject(refineIn) = {"action", "severity"}
    /\ ~refineOut.result.raised
    /\ refineOut.result.rec = refineIn.rec

\* the merged recommendation holds the refiner's value of the field
TakesRefined(in, rec, key) ==
    LET v == RefinerObject(in)[key]
    IN  CASE key = "rationale_enhanced" -> v.t = "str" /\ rec.rationale = v.s
          [] key = "confidence_adjusted" ->
                 /\ ~ToFloat(v).raised
                 /\ rec.confidence = Clamped(IF ToFloat(v).nan THEN 100 ELSE ToFloat(v).v100)
          [] key = "draft_message_enhanced" -> rec.draft_message = v
          [] key = "missing_info_enhanced" ->
                 IsStrList(v) /\ rec.missing_info = [j \in 1..Len(v.items) |-> v.items[j].s]

\* the merged recommendation holds the deterministic value of the field
KeepsDeterministic(in, rec, key) ==
    CASE key = "rationale_enhanced" -> rec.rationale = in.rec.rationale
      [] key = "confidence_adjusted" -> rec.confidence = in.rec.confidence
      [] key = "draft_message_enhanced" -> rec.draft_message = in.rec.draft_message
      [] key = "missing_info_enhanced" -> rec.missing_info = in.rec.missing_info

Merged == RefineDone /\ ~refineOut.result.raised /\ Marked(refineOut.result.rec)

\* C7 as claimed: each field of a merged recommendation takes the refiner's
\* value if and only if the JSON object has the key, and keeps the
\* deterministic value only when the key is absent.
C7_TakesEverySuppliedKey ==
    Merged =>
        \A key \in EnhancementKeys :
            IF Supplied(refineIn, key)
            THEN TakesRefined(refineIn, refineOut.result.rec, key)
            ELSE KeepsDeterministic(refineIn, refineOut.result.rec, key)

\* C7 amended: each field of a merged recommendation takes the refiner's
\* value (the confidence converted to a float and clamped) if and only if
\* the JSON object has the key with a value other than null; it keeps the
\* deterministic value when the key is absent or null.  An empty string or
\* an empty list is taken.
C7_TakesEveryNonNullKey ==
    Merged =>
        \A key \in EnhancementKeys :
            IF SuppliedValue(refineIn, key)
            THEN TakesRefined(refineIn, refineOut.result.rec, key)
            ELSE KeepsDeterministic(refineIn, refineOut.result.rec, key)

C7_Witness ==
    /\ Merged
    /\ Supplied(refineIn, "rationale_enhanced")
    /\ RefinerObject(refineIn)["rationale_enhanced"] = JStr(<<>>)
    /\ refineOut.result.rec.rationale = <<>>
    /\ Supplied(refineIn, "draft_message_enhanced")
    /\ RefinerObject(refineIn)["draft_message_enhanced"] = JNull
    /\ refineOut.result.rec.draft_message = refineIn.rec.draft_message
    /\ ~Supplied(refineIn, "missing_info_enhanced")
    /\ refineOut.result.rec.missing_info = refineIn.rec.missing_info

-----------------------------------------------------------------------------
(* Retrieval: agent/retrieval/rag.py                                        *)

RECURSIVE Split(_)
\* str.split(): the maximal runs of non-whitespace characters
Split(s) ==
    IF s = <<>> THEN <<>>
    ELSE IF s[1] \in Whitespace THEN Split(Tail(s))
    ELSE LET stops == {i \in 1..Len(s) : s[i] \in Whitespace}
             stop == IF stops = {} THEN Len(s) + 1
                     ELSE CHOOSE i \in stops : \A j \in stops : i <= j
         IN  <<SubSeq(s, 1, stop - 1)>> \o Split(SubSeq(s, stop, Len(s)))

RECURSIVE Join(_, _)
\* sep.join(parts)
Join(parts, sep) ==
    IF parts = <<>> THEN <<>>
    ELSE IF Len(parts) = 1 THEN parts[1]
    ELSE parts[1] \o sep \o Join(Tail(parts), sep)

\* str.find(needle): the 0-based position of the first occurrence, or -1
Find(haystack, needle) ==
    LET at == {i \in 0..(Len(haystack) - Len(needle)) :
                  \/ needle = <<>>
                  \/ /\ haystack[i + 1] = needle[1]
                     /\ SubSeq(haystack, i + 1, i + Len(needle)) = needle}
    IN  IF at = {} THEN -1 ELSE CHOOSE i \in at : \A j \in at : i <= j

\* str.replace("\n", " ")
ReplaceNewlines(s) == [i \in 1..Len(s) |-> IF s[i] = "\n" THEN " " ELSE s[i]]

\* seq[:limit] for any integer limit
Prefix(seq, limit) ==
    IF limit >= 0 THEN Slice(seq, 1, limit)
    ELSE SubSeq(seq, 1, Len(seq) + limit)

RECURSIVE SelectTerms(_, _)
\* [t for t in terms if len(t) > longer_than]
SelectTerms(terms, longer_than) ==
    IF terms = <<>> THEN <<>>
    ELSE IF Len(terms[1]) > longer_than
         THEN <<terms[1]>> \o SelectTerms(Tail(terms), longer_than)
         ELSE SelectTerms(Tail(terms), longer_than)

RECURSIVE FirstFound(_, _)
\* lines 175-181: the position of the first term that occurs, else -1
FirstFound(content_lower, terms) ==
    IF terms = <<>> THEN -1
    ELSE IF Find(content_lower, terms[1]) >= 0 THEN Find(content_lower, terms[1])
    ELSE FirstFound(content_lower, Tail(terms))

\* _extract_snippet(content, query) with max_length = 200
_extract_snippet(content, query) ==
    LET content_lower == _lower(content)
        terms == SelectTerms(Split(_lower(query)), 2)
        leading == Strip(ReplaceNewlines(Slice(content, 1, 200)))
        idx == FirstFound(content_lower, terms)
        start == IF idx - 80 > 0 THEN idx - 80 ELSE 0
        end == IF idx + 200 - 80 < Len(content) THEN idx + 200 - 80 ELSE Len(content)
        window == Strip(ReplaceNewlines(SubSeq(content, start + 1, end)))
        left == IF start > 0 THEN <<".",".",".">> \o window ELSE window
    IN  IF terms = <<>> THEN leading
        ELSE IF idx < 0 THEN leading
        ELSE IF end < Len(content) THEN left \o <<".",".",".">> ELSE left

\* DocumentHit(doc_id, title, source, score, snippet); score in hundredths
DocumentHit(doc, score, query) ==
    [doc_id |-> doc.doc_id, title |-> doc.title, source |-> doc.source,
     score |-> score, snippet |-> _extract_snippet(doc.content, query)]

\* lines 69-71 and 144: the text of a document that is embedded or searched
DocText(doc) ==
    doc.title \o <<"\n">> \o doc.source \o <<"\n">> \o Join(doc.tags, <<" ">>)
        \o <<"\n">> \o doc.content

RECURSIVE InsertDesc(_, _)
\* put hit behind every hit of the sorted list whose score is not smaller
InsertDesc(sorted, hit) ==
    IF sorted = <<>> THEN <<hit>>
    ELSE IF sorted[1].score >= hit.score
         THEN <<sorted[1]>> \o InsertDesc(Tail(sorted), hit)
         ELSE <<hit>> \o sorted

RECURSIVE SortDesc(_)
\* hits.sort(key=score, reverse=True): stable, ties keep their order
SortDesc(hits) ==
    IF hits = <<>> THEN <<>>
    ELSE InsertDesc(SortDesc(SubSeq(hits, 1, Len(hits) - 1)), hits[Len(hits)])

RECURSIVE CountTerms(_, _)
\* sum(1 for t in terms if t in haystack)
CountTerms(terms, haystack) ==
    IF terms = <<>> THEN 0
    ELSE (IF Contains(haystack, terms[1]) THEN 1 ELSE 0)
         + CountTerms(Tail(terms), haystack)

\* _keyword_fallback._score(doc), as hundredths
KeywordScore(query, doc) ==
    100 * CountTerms(Split(_lower(query)), _lower(DocText(doc)))

RECURSIVE KeywordHits(_, _)
\* lines 147-160: the documents with a positive score, in corpus order
KeywordHits(query, documents) ==
    IF documents = <<>> THEN <<>>
    ELSE LET score == KeywordScore(query, documents[1])
         IN  (IF score > 0 THEN <<DocumentHit(documents[1], score, query)>> ELSE <<>>)
             \o KeywordHits(query, Tail(documents))

_keyword_fallback(query, documents, limit) ==
    Prefix(SortDesc(KeywordHits(query, documents)), limit)

\* _get_embedding_model(): only a failed import is turned into None; an
\* error of SentenceTransformer(model_name) (line 39) leaves the function.
_get_embedding_model(e) ==
    IF e.embedding = "not_installed" THEN [kind |-> "none"]
    ELSE IF e.embedding = "load_fails" THEN [kind |-> "raises", exc |-> "OSError"]
    ELSE [kind |-> "model"]

RECURSIVE SemanticHits(_, _, _)
\* lines 89-104: the documents whose similarity reaches 0.35, in corpus order
SemanticHits(query, documents, e) ==
    IF documents = <<>> THEN <<>>
    ELSE (IF e.similarity[documents[1].doc_id] >= 35
          THEN <<DocumentHit(documents[1], e.similarity[documents[1].doc_id], query)>>
          ELSE <<>>)
         \o SemanticHits(query, Tail(documents), e)

\* what a search hands back; strategy names the ranking that made the hits
\* ("none": the early return of line 58), which the list itself does not say
Found(hits, strategy) == [raised |-> FALSE, hits |-> hits, strategy |-> strategy]

search_documents_semantic(query, documents, limit, e) ==
    IF query = <<>> \/ documents = <<>> THEN Found(<<>>, "none")
    ELSE IF _get_embedding_model(e).kind = "raises"
         THEN Raised(_get_embedding_model(e).exc)
    ELSE IF _get_embedding_model(e).kind = "none"
         THEN Found(_keyword_fallback(query, documents, limit), "keyword")
    ELSE IF e.embedding = "encode_raises"
         THEN Found(_keyword_fallback(query, documents, limit), "keyword")
    ELSE Found(Prefix(SortDesc(SemanticHits(query, documents, e)), limit), "semantic")

-----------------------------------------------------------------------------
(* Inputs of the retrieval                                                  *)

Doc(doc_id, title, source, tags, content) ==
    [doc_id |-> doc_id, title |-> title, source |-> source, tags |-> tags,
     content |-> content]

DocAeDates ==
    Doc("D1", <<"A","E"," ","D","a","t","e"," ","C","h","e","c","k","s"," ","G","u","i","d","a","n","c","e">>, <<"D","R","P">>, <<<<"A","E">>, <<"d","a","t","e","s">>>>,
        <<"E","n","d"," ","d","a","t","e"," ","b","e","f","o","r","e"," ","s","t","a","r","t"," ","d","a","t","e",":">> \o <<"\n">> \o <<"q","u","e","r","y"," ","t","h","e"," ","s","i","t","e",".">>)
DocMissing ==
    Doc("D2", <<"M","i","s","s","i","n","g"," ","D","a","t","a"," ","S","O","P">>, <<"S","O","P">>, <<>>,
        <<"A"," ","m","i","s","s","i","n","g"," ","r","e","q","u","i","r","e","d"," ","f","i","e","l","d"," ","i","s"," ","c","o","m","p","l","e","t","e","d"," ","f","r","o","m"," ","s","o","u","r","c","e"," ","d","a","t","a",".">>)
DocVitals ==
    Doc("D3", <<"V","i","t","a","l"," ","S","i","g","n","s"," ","L","i","m","i","t","s">>, <<"s","p","e","c">>, <<<<"V","S">>>>,
        <<"H","e","a","r","t"," ","r","a","t","e"," ","l","i","m","i","t","s"," ","v","a","l","i","d","a","t","i","o","n",".">>)
Docs == {DocAeDates, DocMissing, DocVitals}
DocIds == {d.doc_id : d \in Docs}

MaxDocs == 2

\* the corpora: up to MaxDocs different documents in any order
Corpora ==
    {c \in UNION {[1..n -> Docs] : n \in 0..MaxDocs} :
        \A i, j \in DOMAIN c : i # j => c[i] # c[j]}

Queries ==
    {<<>>, <<"A","E"," ","a","d","v","e","r","s","e"," ","e","v","e","n","t"," ","d","a","t","e"," ","s","t","a","r","t"," ","e","n","d"," ","i","n","c","o","n","s","i","s","t","e","n","c","y">>,
     <<"D","M"," ","m","i","s","s","i","n","g"," ","r","e","q","u","i","r","e","d"," ","f","i","e","l","d"," ","d","a","t","a"," ","q","u","a","l","i","t","y">>, <<"V","S">>, <<"L","B"," ","z","z","z">>}
Limits == {0, 1, 3, -1}
SimilarityValues == {20, 35, 39, 40, 90}
EmbeddingModes == {"ok", "not_installed", "load_fails", "encode_raises"}

\* no similarity is consulted unless the model loads and encodes
NoSimilarity == [d \in DocIds |-> 0]
Similarities(corpus) ==
    {s \in [DocIds -> SimilarityValues \cup {0}] :
        \A d \in DocIds :
            IF \E i \in DOMAIN corpus : corpus[i].doc_id = d
            THEN s[d] \in SimilarityValues ELSE s[d] = 0}

Embeddings(corpus) ==
    {[embedding |-> "ok", similarity |-> s] : s \in Similarities(corpus)}
    \cup {[embedding |-> m, similarity |-> NoSimilarity] :
             m \in EmbeddingModes \ {"ok"}}

RetrieveInputs ==
    UNION {{[query |-> q, documents |-> c, limit |-> l, env |-> e] :
               q \in Queries, l \in Limits, e \in Embeddings(c)} : c \in Corpora}

-----------------------------------------------------------------------------
(* SpecRetrieve: one call of search_documents_semantic                      *)

InitRetrieve ==
    /\ searchIn \in RetrieveInputs
    /\ searchOut = Idle
    /\ issue = Idle /\ outcome = Idle
    /\ refineIn = Idle /\ refineOut = Idle
    /\ ISSUES = <<>> /\ RUNS = <<>> /\ AUDIT = <<>> /\ DOCUMENTS = <<>>
    /\ DECISIONS = <<>>
    /\ env = Idle /\ response = Idle /\ trace = <<>>

Search ==
    /\ searchOut = Idle
    /\ searchOut' = [kind |-> "done",
                     result |-> search_documents_semantic(
                         searchIn.query, searchIn.documents, searchIn.limit,
                         searchIn.env)]
    /\ UNCHANGED <<searchIn, EngineVars, RefineVars, ApiVars>>

NextRetrieve == Search

SpecRetrieve == InitRetrieve /\ [][NextRetrieve]_vars

-----------------------------------------------------------------------------
(* Claims about the retrieval                                               *)

SearchDone == searchOut # Idle

\* C10: for every query, corpus, limit and every way the embedding
\* capability can be missing or fail (package not installed, model cannot
\* be loaded, encoding raises), search_documents_semantic returns a list of
\* hits and no exception escapes; with an empty corpus the list is empty.
C10_RetrievalNeverRaises ==
    SearchDone =>
        /\ ~searchOut.result.raised
        /\ searchIn.documents = <<>> => searchOut.result.hits = <<>>

\* what does hold: whenever the model loads, the call returns a list, and
\* a failed import or a failed encoding is answered by the keyword ranking
C10_ReturnsUnlessLoadFails ==
    SearchDone =>
        /\ searchOut.result.raised <=>
              /\ searchIn.query # <<>> /\ searchIn.documents # <<>>
              /\ searchIn.env.embedding = "load_fails"
        /\ (~searchOut.result.raised
            /\ searchIn.env.embedding \in {"not_installed", "encode_raises"})
              => searchOut.result.hits =
                    _keyword_fallback(searchIn.query, searchIn.documents,
                                      searchIn.limit)

-----------------------------------------------------------------------------
(* The analyze route: apps/api/routes/analyze.py                            *)
(*                                                                         *)
(* The environment of the process adds to that of the refinement stage the *)
(* variables RAG_SEMANTIC and LLM_MODEL and the embedding capability       *)
(* (embedding, similarity).  Issue, run and document ids are handed out in *)
(* order of creation.                                                      *)

\* str.upper() of a rule tag; every tag the engine emits is upper case
RuleTags ==
    {"AE_DATE_INCONSISTENCY", "MISSING_CRITICAL_FIELD", "OUT_OF_RANGE",
     "DUPLICATE_RECORD", "FALLBACK"}
UpperTag(tag) == IF tag \in RuleTags THEN tag ELSE "OTHER"

\* _build_doc_query(domain, rule_fired, issue_description); rule_fired is
\* None or a tag
_build_doc_query(domain, rule_fired, issue_description) ==
    LET base == Strip(domain)
        rule == UpperTag(rule_fired)
    IN  IF rule_fired = "None"
        THEN IF issue_description # <<>>
             THEN Strip(base \o <<" ">> \o issue_description)
             ELSE base
        ELSE IF rule = "AE_DATE_INCONSISTENCY"
             THEN base \o <<" ","a","d","v","e","r","s","e"," ","e","v","e","n","t"," ","d","a","t","e"," ","s","t","a","r","t"," ","e","n","d"," ","i","n","c","o","n","s","i","s","t","e","n","c","y">>
        ELSE IF rule = "MISSING_CRITICAL_FIELD"
             THEN base \o <<" ","m","i","s","s","i","n","g"," ","r","e","q","u","i","r","e","d"," ","f","i","e","l","d"," ","d","a","t","a"," ","q","u","a","l","i","t","y">>
        ELSE IF rule = "OUT_OF_RANGE_SIGNAL"
             THEN base \o <<" ","o","u","t"," ","o","f"," ","r","a","n","g","e"," ","l","i","m","i","t","s"," ","v","a","l","i","d","a","t","i","o","n">>
        ELSE IF rule = "DUPLICATE_RECORD_SUSPECTED"
             THEN base \o <<" ","d","u","p","l","i","c","a","t","e"," ","r","e","c","o","r","d"," ","d","e","-","d","u","p","l","i","c","a","t","i","o","n"," ","d","a","t","a"," ","q","u","a","l","i","t","y">>
        ELSE IF rule = "FALLBACK"
             THEN IF issue_description # <<>>
                  THEN Strip(base \o <<" ">> \o issue_description)
                  ELSE base \o <<" ","d","a","t","a"," ","q","u","a","l","i","t","y"," ","i","s","s","u","e">>
        ELSE base

\* lines 87-94: the retrieval query of an issue and its recommendation
QueryOf(i, recommendation) ==
    _build_doc_query(i.domain,
                     IF Has(recommendation.tool_results, "rule_fired")
                     THEN recommendation.tool_results.rule_fired ELSE "None",
                     i.description)

\* lines 97-102 and 148-153: the request's flag if it is given, else the
\* issue's handling mode or the environment variable
FlagOf(request_flag, i, variable) ==
    IF request_flag # None THEN request_flag.b
    ELSE i.issue_type = "llm_required" \/ EnvFlag(variable)

\* storage.list_documents(): the ingested documents in order of ingestion
list_documents(documents) == documents

\* storage.search_documents(query, limit): the keyword strategy (whitespace
\* tokens, case-insensitive substring count over title, source, tags and
\* content, positive scores only, descending, the first `limit`)
search_documents(documents, query, limit) == _keyword_fallback(query, documents, limit)

RECURSIVE SelectCitable(_)
\* [h for h in hits if h.score >= 0.40]
SelectCitable(hits) ==
    IF hits = <<>> THEN <<>>
    ELSE (IF hits[1].score >= 40 THEN <<hits[1]>> ELSE <<>>)
         \o SelectCitable(Tail(hits))

\* line 112: what the semantic branch writes to tool_results.rag_method
RagMethodRecorded(found) == "semantic"

\* lines 108-131: the semantic branch on what the search handed back
SemanticBranch(found) ==
    IF found.raised THEN found
    ELSE [raised |-> FALSE, hits |-> SelectCitable(found.hits),
          rag_method |-> RagMethodRecorded(found), found |-> found]

\* lines 133-134: the keyword branch
KeywordBranch(hits) ==
    [raised |-> FALSE, hits |-> hits, rag_method |-> "keyword",
     found |-> Found(hits, "keyword")]

\* lines 104-134: the hits to cite, the recorded method, and what the
\* search itself did
Retrieve(query, use_semantic_rag, documents, e) ==
    IF use_semantic_rag
    THEN SemanticBranch(search_documents_semantic(query, list_documents(documents), 3, e))
    ELSE KeywordBranch(search_documents(documents, query, 3))

\* lines 137-141
CitationHit(h) == [doc_id |-> h.doc_id, title |-> h.title, source |-> h.source,
                   score |-> h.score]
WithCitations(recommendation, retrieved) ==
    [recommendation EXCEPT
        !.citations = [j \in 1..Len(retrieved.hits) |-> retrieved.hits[j].doc_id],
        !.tool_results =
            Put(Put(@, "rag_method", retrieved.rag_method),
                "citation_hits",
                [j \in 1..Len(retrieved.hits) |-> CitationHit(retrieved.hits[j])])]

\* lines 189-194: the failure marks, keeping a reason already there
LlmFailed(recommendation, reason) ==
    [recommendation EXCEPT
        !.tool_results =
            Put(Put(Put(@, "llm_requested", TRUE), "llm_failed", TRUE),
                "llm_failure_reason",
                IF Has(@, "llm_failure_reason") THEN @.llm_failure_reason ELSE reason)]

\* req.llm_model or os.getenv("LLM_MODEL", "gpt-4o-mini"): `or` passes over
\* None and over the empty string; a variable set to "" is handed back as ""
LlmModelOf(req, e) ==
    IF req.llm_model # "None" /\ req.llm_model # "" THEN req.llm_model
    ELSE IF e.LLM_MODEL = "unset" THEN "gpt-4o-mini" ELSE e.LLM_MODEL

\* the refinement step left the recommendation to the route
Kept(rec) == [raised |-> FALSE, rec |-> rec, called |-> FALSE]

\* lines 197-205 and 167-174: the marks of a refinement that could not start
NotStarted(recommendation, reason) ==
    [recommendation EXCEPT
        !.tool_results =
            Put(Put(Put(@, "llm_requested", TRUE), "llm_failed", TRUE),
                "llm_failure_reason", reason)]

\* lines 176-194: what enhance_with_llm handed back, marked as failed unless
\* it is marked as enhanced
AfterEnhance(recommendation, enhanced) ==
    IF enhanced.raised THEN enhanced
    ELSE [raised |-> FALSE,
          rec |-> IF Get(enhanced.rec.tool_results, "llm_enhanced", FALSE)
                  THEN enhanced.rec
                  ELSE LlmFailed(enhanced.rec, "check_server_logs"),
          called |-> TRUE, given |-> recommendation, returned |-> enhanced.rec]

\* lines 154-205: the recommendation after the refinement step; called is
\* whether enhance_with_llm was invoked, given is what it was handed
LlmStep(i, req, recommendation, e) ==
    IF ~FlagOf(req.use_llm, i, e.LLM_ENABLED) THEN Kept(recommendation)
    ELSE IF ~e.openai_installed
         THEN Kept(NotStarted(recommendation, "openai_not_installed"))
    ELSE IF NoApiKey(e) THEN Kept(NotStarted(recommendation, "api_key_not_set"))
    ELSE AfterEnhance(recommendation,
                      enhance_with_llm(recommendation, LlmModelOf(req, e),
                                       req.use_llm = JBool(TRUE)
                                           \/ i.issue_type = "llm_required",
                                       e))

\* the AuditEvent that add_audit_event appends
AuditEvent(event_type, actor, issue_id, run_id, details) ==
    [event_type |-> event_type, actor |-> actor, issue_id |-> issue_id,
     run_id |-> run_id, details |-> details]

\* AgentRun(issue_id, rules_version, recommendation) with its fresh run_id
AgentRun(run_id, issue_id, rules_version, recommendation) ==
    [run_id |-> run_id, issue_id |-> issue_id, rules_version |-> rules_version,
     recommendation |-> recommendation]

\* lines 210-211
WithReplay(recommendation, req) ==
    IF req.replay_of_run_id # 0
    THEN [recommendation EXCEPT
            !.tool_results = Put(@, "replay_of_run_id", req.replay_of_run_id)]
    ELSE recommendation

\* lines 225-232: the details of ANALYZE_RUN_CREATED
RunCreatedDetails(run, req) ==
    [rules_version |-> run.rules_version,
     rule_fired |-> Get(run.recommendation.tool_results, "rule_fired", "None"),
     replay_of_run_id |-> req.replay_of_run_id,
     llm_enhanced |-> Get(run.recommendation.tool_results, "llm_enhanced", FALSE),
     llm_model |-> Get(run.recommendation.tool_results, "llm_model", "None"),
     rag_method |-> Get(run.recommendation.tool_results, "rag_method", "keyword")]

\* what the history keeps of a recommendation
Outline(recommendation) ==
    [severity |-> recommendation.severity, action |-> recommendation.action,
     citations |-> recommendation.citations,
     citation_hits |-> Get(recommendation.tool_results, "citation_hits", <<>>)]

\* lines 207-215: the recommendation to store, with a record of what each
\* stage did
StageStore(req, engine_rec, query, retrieved, cited, refined) ==
    IF refined.raised THEN Raised(refined.exc)
    ELSE [raised |-> FALSE,
          recommendation |-> WithReplay(refined.rec, req),
          stages |-> [engine |-> Outline(engine_rec), query |-> query,
                      strategy |-> retrieved.found.strategy,
                      found |-> [j \in 1..Len(retrieved.found.hits) |->
                                    [doc_id |-> retrieved.found.hits[j].doc_id,
                                     score |-> retrieved.found.hits[j].score]],
                      cited |-> Outline(cited),
                      refiner_called |-> refined.called,
                      refiner_given |->
                          IF refined.called THEN Outline(refined.given)
                          ELSE Outline(cited),
                      refiner_returned |->
                          IF refined.called THEN Outline(refined.returned)
                          ELSE Outline(cited)]]

\* a route that invokes the refiner before the citations are attached
StageRefineBeforeCite(i, req, e, engine_rec, query, retrieved, cited) ==
    StageStore(req, engine_rec, query, retrieved, cited, LlmStep(i, req, engine_rec, e))

\* lines 143-205: the refinement step on the cited recommendation
StageRefine(i, req, e, engine_rec, query, retrieved, cited) ==
    StageStore(req, engine_rec, query, retrieved, cited, LlmStep(i, req, cited, e))

\* lines 136-141: the citations are attached
StageCite(i, req, e, engine_rec, query, retrieved) ==
    IF retrieved.raised THEN Raised(retrieved.exc)
    ELSE StageRefine(i, req, e, engine_rec, query, retrieved,
                     WithCitations(engine_rec, retrieved))

\* lines 96-134: retrieval with the query
StageRetrieve(i, req, documents, e, engine_rec, query) ==
    StageCite(i, req, e, engine_rec, query,
              Retrieve(query, FlagOf(req.use_semantic_rag, i, e.RAG_SEMANTIC),
                       documents, e))

\* lines 85-94: the engine's result and the query built from it
StageQuery(i, req, documents, e, engine) ==
    IF engine.raised THEN engine
    ELSE StageRetrieve(i, req, documents, e, engine.rec, QueryOf(i, engine.rec))

\* the body of analyze() for an issue that exists, up to the AgentRun:
\* either an exception that leaves the handler, or the recommendation to
\* store with a record of what each stage did
analyze(i, req, documents, e) == StageQuery(i, req, documents, e, analyze_issue(i))

\* storage.get_issue(issue_id); None when there is no such issue
get_issue(issues, issue_id) == IF issue_id \in DOMAIN issues THEN issues[issue_id] ELSE None

\* the history of the issue is replaced by the run
ReplaceRuns(runs, issue_id, run) == Put(runs, issue_id, <<run>>)

\* storage.append_run: RUNS.setdefault(issue_id, []).append(run)
append_run(runs, issue_id, run) ==
    Put(runs, issue_id, Append(Get(runs, issue_id, <<>>), run))

\* Issue(**issue_create.model_dump()) with the server's fields
Issue(issue_id, issue_create, issue_type) ==
    [issue_id |-> issue_id, status |-> "open", issue_type |-> issue_type,
     source |-> issue_create.source, domain |-> issue_create.domain,
     subject_id |-> issue_create.subject_id, fields |-> issue_create.fields,
     description |-> issue_create.description,
     evidence_payload |-> issue_create.evidence_payload]

-----------------------------------------------------------------------------
(* Inputs of the API                                                        *)

MaxIssues == 1
MaxAnalyses == 1

IssueTypes == {"deterministic", "llm_required"}

IssueCreate(source, domain, subject_id, fields, description, evidence_payload) ==
    [source |-> source, domain |-> domain, subject_id |-> subject_id,
     fields |-> fields, description |-> description,
     evidence_payload |-> evidence_payload]

IssueCreates ==
    { IssueCreate("edit_check", <<"A","E">>, "SUBJ-001", <<"AESTDTC", "AEENDTC">>,
                  <<"A","E"," ","e","n","d"," ","d","a","t","e"," ","i","s"," ","b","e","f","o","r","e"," ","s","t","a","r","t"," ","d","a","t","e">>, EvEndBeforeStart),
      IssueCreate("manual", <<"D","M">>, "SUBJ-002", <<"BRTHDTC">>,
                  <<"M","i","s","s","i","n","g"," ","r","e","q","u","i","r","e","d"," ","f","i","e","l","d"," ","A","E","S","E","R">>, EvNullLeaf),
      IssueCreate("listing", <<"V","S">>, "SUBJ-003", <<>>,
                  <<"H","e","a","r","t"," ","r","a","t","e"," ","l","i","m","i","t","s"," ","v","a","l","i","d","a","t","i","o","n">>, EvEmpty),
      IssueCreate("listing", <<"A","E">>, "SUBJ-004", <<>>, <<>>, EvAwareStartNaiveEnd),
      IssueCreate("edit_check", <<"V","S">>, "SUBJ-005", <<"VSORRES">>,
                  <<"H","e","a","r","t"," ","r","a","t","e"," ","o","u","t"," ","o","f"," ","r","a","n","g","e">>, EvHeartRateHigh),
      IssueCreate("manual", <<"D","M">>, "SUBJ-006", <<>>,
                  <<"P","o","s","s","i","b","l","e"," ","d","u","p","l","i","c","a","t","e"," ","r","e","c","o","r","d">>, EvEmpty) }

\* the request bodies: both switches in every position, a replay with its
\* own model and rules version, and a request whose model is the empty string
AnalyzeRequest(rules_version, replay_of_run_id, use_llm, use_semantic_rag, llm_model) ==
    [rules_version |-> rules_version, replay_of_run_id |-> replay_of_run_id,
     use_llm |-> use_llm, use_semantic_rag |-> use_semantic_rag,
     llm_model |-> llm_model]
Switch == {None, JBool(TRUE), JBool(FALSE)}
Requests ==
    { AnalyzeRequest("v0.1", 0, l, s, "None") : l \in Switch, s \in Switch }
    \cup { AnalyzeRequest("v0.2", 1, JBool(TRUE), JBool(TRUE), "gpt-4"),
           AnalyzeRequest("v0.1", 0, JBool(TRUE), None, "") }
\* refiner side of the environment: a usable response, one that also
\* carries action and severity, one that carries nothing else, and the
\* stages that can fail
FullObject ==
    ObjectOf(JStr(<<"R","e","f","i","n","e","d"," ","r","a","t","i","o","n","a","l","e",".">>), JFloat(150), JStr(<<"R","e","f","i","n","e","d"," ","d","r","a","f","t",".">>),
             JList(<<JStr(<<"V","i","s","i","t"," ","d","a","t","e">>)>>), TRUE)
OnlyActionSeverity == ObjectOf(Absent, Absent, Absent, Absent, TRUE)
RefinerSides ==
    { WorkingEnv(ObjectContent(SampleObject)),
      WorkingEnv(ObjectContent(FullObject)),
      WorkingEnv(ObjectContent(OnlyActionSeverity)),
      WorkingEnv([kind |-> "raises"]),
      [WorkingEnv(ObjectContent(SampleObject)) EXCEPT !.openai_installed = FALSE],
      [WorkingEnv(ObjectContent(SampleObject)) EXCEPT !.OPENAI_API_KEY = Unset],
      [WorkingEnv(ObjectContent(SampleObject)) EXCEPT !.client_ctor_raises = TRUE] }

\* embedding side: two similarity tables (one with citable documents, one
\* whose best score is 0.39) and the three ways the capability fails
EmbeddingSides ==
    { [embedding |-> "ok", similarity |-> [D1 |-> 90, D2 |-> 36, D3 |-> 40]],
      [embedding |-> "ok", similarity |-> [D1 |-> 36, D2 |-> 39, D3 |-> 20]],
      [embedding |-> "not_installed", similarity |-> NoSimilarity],
      [embedding |-> "load_fails", similarity |-> NoSimilarity],
      [embedding |-> "encode_raises", similarity |-> NoSimilarity] }

VariableSides ==
    { [RAG_SEMANTIC |-> Unset, LLM_ENABLED |-> Unset, LLM_MODEL |-> "unset"],
      [RAG_SEMANTIC |-> JStr(<<"1">>), LLM_ENABLED |-> JStr(<<"t","r","u","e">>),
       LLM_MODEL |-> "gpt-4"],
      [RAG_SEMANTIC |-> Unset, LLM_ENABLED |-> JStr(<<"y","e","s">>), LLM_MODEL |-> ""] }

ApiEnv(r, m, v) ==
    [LLM_ENABLED |-> v.LLM_ENABLED, OPENAI_API_KEY |-> r.OPENAI_API_KEY,
     openai_installed |-> r.openai_installed,
     client_ctor_raises |-> r.client_ctor_raises,
     prompt_raises |-> r.prompt_raises, call |-> r.call,
     RAG_SEMANTIC |-> v.RAG_SEMANTIC, LLM_MODEL |-> v.LLM_MODEL,
     embedding |-> m.embedding, similarity |-> m.similarity]

VariablesUnset == [RAG_SEMANTIC |-> Unset, LLM_ENABLED |-> Unset, LLM_MODEL |-> "unset"]
CitableTable == [embedding |-> "ok", similarity |-> [D1 |-> 90, D2 |-> 36, D3 |-> 40]]

\* every refiner side with a working embedding, every embedding side with
\* the refiner response that carries all keys, each under both settings
\* of the variables
ApiEnvs ==
    { ApiEnv(r, CitableTable, v) : r \in RefinerSides, v \in VariableSides }
    \cup { ApiEnv(WorkingEnv(ObjectContent(FullObject)), m, v) :
              m \in EmbeddingSides, v \in VariableSides }

\* the documents in the order in which they are ingested
IngestOrder == <<DocAeDates, DocMissing, DocVitals>>

-----------------------------------------------------------------------------
(* Spec: the API with its in-memory stores                                  *)

Init ==
    /\ ISSUES = <<>> /\ RUNS = <<>> /\ AUDIT = <<>> /\ DOCUMENTS = <<>>
    /\ DECISIONS = <<>>
    /\ env \in ApiEnvs
    /\ response = Idle
    /\ trace = <<>>
    /\ issue = Idle /\ outcome = Idle
    /\ refineIn = Idle /\ refineOut = Idle
    /\ searchIn = Idle /\ searchOut = Idle

\* POST /issues: storage.create_issue with its ISSUE_CREATED event
CreateIssueCall(issue_create, issue_type) ==
        LET issue_id == Cardinality(DOMAIN ISSUES) + 1
            created == Issue(issue_id, issue_create, issue_type)
        IN  /\ ISSUES' = Put(ISSUES, issue_id, created)
            /\ AUDIT' = Append(AUDIT,
                   AuditEvent("ISSUE_CREATED", "SYSTEM", issue_id, 0,
                              [source |-> created.source, domain |-> created.domain,
                               subject_id |-> created.subject_id]))
            /\ UNCHANGED <<RUNS, DOCUMENTS, DECISIONS, env, response, trace, EngineVars,
                           RefineVars, SearchVars>>

CreateIssue ==
    \E issue_create \in IssueCreates, issue_type \in IssueTypes :
        /\ Cardinality(DOMAIN ISSUES) < MaxIssues
        /\ CreateIssueCall(issue_create, issue_type)

\* POST /documents: the document is stored and DOCUMENT_INGESTED is written
IngestDocument ==
    /\ Len(DOCUMENTS) < MaxDocs
    /\ Len(DOCUMENTS) < Len(IngestOrder)
    /\ LET doc == IngestOrder[Len(DOCUMENTS) + 1]
       IN  /\ DOCUMENTS' = Append(DOCUMENTS, doc)
           /\ AUDIT' = Append(AUDIT,
                  AuditEvent("DOCUMENT_INGESTED", "writer", 0, 0,
                             [doc_id |-> doc.doc_id, title |-> doc.title,
                              source |-> doc.source]))
    /\ UNCHANGED <<ISSUES, RUNS, DECISIONS, env, response, trace, EngineVars,
                   RefineVars, SearchVars>>

\* the analyses that stored a run; their number is the number of run ids
\* handed out so far
StoredRuns == {k \in 1..Len(trace) : trace[k].op = "analyze" /\ trace[k].status = 200}

\* POST /issues/{issue_id}/analyze: the issue is looked up (404 if there
\* is none), analysed, and the run is stored with its audit event; an
\* exception of a stage leaves the handler before anything is stored
AnalyzeCall(issue_id, req) ==
        /\ \E found \in {get_issue(ISSUES, issue_id)} :
              IF found = None
              THEN /\ response' = [status |-> 404]
                   /\ trace' = Append(trace, [op |-> "analyze", status |-> 404, issue_id |-> issue_id])
                   /\ UNCHANGED <<RUNS, AUDIT>>
              ELSE \E done \in {analyze(found, req, DOCUMENTS, env)} :
                   IF done.raised
                   THEN /\ response' = [status |-> 500, exc |-> done.exc]
                        /\ trace' = Append(trace,
                                           [op |-> "analyze", status |-> 500, issue_id |-> issue_id,
                                            req |-> req, exc |-> done.exc])
                        /\ UNCHANGED <<RUNS, AUDIT>>
                   ELSE \E run \in {AgentRun(Cardinality(StoredRuns) + 1, issue_id,
                                              req.rules_version, done.recommendation)} :
                        /\ RUNS' = append_run(RUNS, issue_id, run)
                        /\ AUDIT' = Append(AUDIT,
                               AuditEvent("ANALYZE_RUN_CREATED", "SYSTEM", issue_id,
                                          run.run_id, RunCreatedDetails(run, req)))
                        /\ trace' = Append(trace,
                               [op |-> "analyze", status |-> 200, issue_id |-> issue_id,
                                run_id |-> run.run_id, req |-> req,
                                stages |-> done.stages])
                        /\ response' = [status |-> 200, body |-> run]
        /\ UNCHANGED <<ISSUES, DOCUMENTS, DECISIONS, env, EngineVars, RefineVars, SearchVars>>

Analyze ==
    \E issue_id \in 1..(MaxIssues + 1), req \in Requests :
        /\ Len(trace) < MaxAnalyses
        /\ AnalyzeCall(issue_id, req)

Next == CreateIssue \/ IngestDocument \/ Analyze

Spec == Init /\ [][Next]_vars

-----------------------------------------------------------------------------
(* Claims about analysis runs                                               *)

\* the run an analysis stored, and its ANALYZE_RUN_CREATED event
RunOf(k) ==
    CHOOSE run \in {RUNS[trace[k].issue_id][j] : j \in 1..Len(RUNS[trace[k].issue_id])} :
        run.run_id = trace[k].run_id
EventOf(k) ==
    CHOOSE ev \in {AUDIT[j] : j \in 1..Len(AUDIT)} :
        ev.event_type = "ANALYZE_RUN_CREATED" /\ ev.run_id = trace[k].run_id

\* the JSON object of the refiner's response carries the key
RefinerCarries(key) ==
    /\ env.call.kind = "content" /\ env.call.content.kind = "json"
    /\ env.call.content.value.t = "object"
    /\ Has(env.call.content.value.d, key)

\* C3: the refinement stage never alters severity or action: whatever the
\* refiner responds (action and severity keys included), the recommendation
\* enhance_with_llm returns, and the recommendation an analysis run stores,
\* has the severity and action that analyze_issue produced.
C3_SeverityActionFromEngine ==
    \A k \in StoredRuns :
        /\ trace[k].stages.refiner_given.severity = trace[k].stages.engine.severity
        /\ trace[k].stages.refiner_given.action = trace[k].stages.engine.action
        /\ trace[k].stages.refiner_returned.severity = trace[k].stages.engine.severity
        /\ trace[k].stages.refiner_returned.action = trace[k].stages.engine.action
        /\ RunOf(k).recommendation.severity = trace[k].stages.engine.severity
        /\ RunOf(k).recommendation.action = trace[k].stages.engine.action
        /\ analyze_issue(ISSUES[trace[k].issue_id]).rec.severity
               = RunOf(k).recommendation.severity
        /\ analyze_issue(ISSUES[trace[k].issue_id]).rec.action
               = RunOf(k).recommendation.action

C3_Witness ==
    \E k \in StoredRuns :
        /\ trace[k].stages.refiner_called
        /\ RefinerCarries("severity") /\ RefinerCarries("action")
        /\ env.call.content.value.d["severity"] = JStr(<<"L","O","W">>)
        /\ Get(RunOf(k).recommendation.tool_results, "llm_enhanced", FALSE)
        /\ trace[k].stages.engine.severity = "HIGH"
        /\ RunOf(k).recommendation.severity = "HIGH"
        /\ RunOf(k).recommendation.action = "QUERY_SITE"

\* the same for a response that carries nothing but action and severity
C3_OnlyActionSeverityKept ==
    \A k \in StoredRuns :
        (trace[k].stages.refiner_called /\ RefinerCarries("severity")
         /\ ~\E key \in EnhancementKeys : RefinerCarries(key))
            => /\ RunOf(k).recommendation.severity = trace[k].stages.engine.severity
               /\ ~Get(RunOf(k).recommendation.tool_results, "llm_enhanced", FALSE)

\* C8: after every analysis run, tool_results.rag_method and the rag_method
\* of the ANALYZE_RUN_CREATED event name the strategy that produced the
\* citation hits; when the similarity strategy was selected but keyword
\* ranking produced the hits, the run does not record "semantic".
C8_RagMethodNamesStrategy ==
    \A k \in StoredRuns :
        trace[k].stages.strategy \in {"keyword", "semantic"} =>
            /\ RunOf(k).recommendation.tool_results.rag_method = trace[k].stages.strategy
            /\ EventOf(k).details.rag_method = trace[k].stages.strategy

\* what does hold: the recorded method is the strategy that was selected
C8_RagMethodNamesSelection ==
    \A k \in StoredRuns :
        /\ RunOf(k).recommendation.tool_results.rag_method \in {"keyword", "semantic"}
        /\ EventOf(k).details.rag_method
               = RunOf(k).recommendation.tool_results.rag_method
        /\ trace[k].stages.strategy = "semantic"
               => RunOf(k).recommendation.tool_results.rag_method = "semantic"

\* the citations of a stored run are the found hits that are citable
CitedFromFloor(k) ==
    LET found == trace[k].stages.found
        citable == SelectSeq(found, LAMBDA h : h.score >= 40)
        rec == RunOf(k).recommendation
    IN  /\ rec.citations = [j \in 1..Len(citable) |-> citable[j].doc_id]
        /\ Len(rec.tool_results.citation_hits) = Len(citable)
        /\ \A j \in 1..Len(citable) :
               /\ rec.tool_results.citation_hits[j].doc_id = citable[j].doc_id
               /\ rec.tool_results.citation_hits[j].score = citable[j].score

\* C9: in an analysis run whose retrieval is recorded as semantic, every
\* attached citation has a cosine similarity of at least 0.40 and at most 1;
\* candidates scoring in [0.35, 0.40) are never attached, and when every
\* retained candidate is below 0.40 the recommendation has an empty
\* citation list and empty citation_hits.
C9_CitableFloor ==
    \A k \in StoredRuns :
        RunOf(k).recommendation.tool_results.rag_method = "semantic" =>
            /\ CitedFromFloor(k)
            /\ \A j \in 1..Len(RunOf(k).recommendation.tool_results.citation_hits) :
                   RunOf(k).recommendation.tool_results.citation_hits[j].score \in 40..100

\* what does hold: the floor, and the range of a cosine similarity in the
\* runs whose hits the similarity ranking produced
C9_CitableFloorWhenSimilarityRan ==
    \A k \in StoredRuns :
        RunOf(k).recommendation.tool_results.rag_method = "semantic" =>
            /\ CitedFromFloor(k)
            /\ \A j \in 1..Len(RunOf(k).recommendation.tool_results.citation_hits) :
                   /\ RunOf(k).recommendation.tool_results.citation_hits[j].score >= 40
                   /\ trace[k].stages.strategy = "semantic" =>
                          RunOf(k).recommendation.tool_results.citation_hits[j].score <= 100

-----------------------------------------------------------------------------
(* Classifier: agent/classify/classifier.py                                 *)
(*                                                                         *)
(* Scores are counted in hundredths.  The reason of a result is left out:  *)
(* it names the phrase a loop over a set met first.                        *)

LLM_REQUIRED_KEYWORDS ==
    { <<"r","e","q","u","i","r","e","s"," ","r","e","v","i","e","w">>, <<"r","e","q","u","i","r","e","s"," ","m","a","n","u","a","l">>, <<"r","e","q","u","i","r","e","s"," ","m","e","d","i","c","a","l">>, <<"m","a","n","u","a","l"," ","r","e","v","i","e","w">>,
      <<"m","e","d","i","c","a","l"," ","r","e","v","i","e","w">>, <<"c","l","i","n","i","c","a","l"," ","r","e","v","i","e","w">>, <<"c","o","m","p","l","e","x">>, <<"a","m","b","i","g","u","o","u","s">>, <<"u","n","c","l","e","a","r">>,
      <<"u","n","c","l","e","a","r"," ","i","f">>, <<"m","a","y"," ","b","e">>, <<"s","u","s","p","e","c","t","e","d">>, <<"c","l","i","n","i","c","a","l"," ","s","i","g","n","i","f","i","c","a","n","c","e">>,
      <<"s","i","g","n","i","f","i","c","a","n","c","e"," ","u","n","c","l","e","a","r">>, <<"c","o","n","t","e","x","t"," ","n","e","e","d","e","d">>, <<"c","l","i","n","i","c","a","l"," ","c","o","n","t","e","x","t">>,
      <<"m","e","d","i","c","a","l"," ","j","u","d","g","m","e","n","t">>, <<"d","i","s","c","r","e","p","a","n","c","y">>, <<"d","i","s","c","r","e","p","a","n","c","y"," ","v","s">>, <<"d","i","f","f","e","r","s"," ","f","r","o","m">>,
      <<"c","o","n","f","l","i","c","t","s">>, <<"r","e","c","o","n","c","i","l","i","a","t","i","o","n">>, <<"a","s","s","e","s","s"," ","i","f">>, <<"d","e","t","e","r","m","i","n","e"," ","i","f">>,
      <<"n","e","e","d"," ","t","o"," ","a","s","s","e","s","s">>, <<"n","e","e","d"," ","t","o"," ","d","e","t","e","r","m","i","n","e">>, <<"u","n","c","o","m","m","o","n">>, <<"n","o","t"," ","i","n"," ","s","t","a","n","d","a","r","d">>,
      <<"n","o","t"," ","s","t","a","n","d","a","r","d">>, <<"n","o","t"," ","i","n"," ","d","i","c","t","i","o","n","a","r","y">>, <<"n","o","t"," ","f","o","u","n","d"," ","i","n">>, <<"m","u","l","t","i","p","l","e"," ","r","e","l","a","t","e","d">>,
      <<"r","e","l","a","t","e","d"," ","c","o","n","d","i","t","i","o","n","s">> }

DETERMINISTIC_PATTERNS ==
    { <<"m","i","s","s","i","n","g">>, <<"m","i","s","s","i","n","g"," ","r","e","q","u","i","r","e","d">>, <<"m","i","s","s","i","n","g"," ","f","i","e","l","d">>, <<"o","u","t"," ","o","f"," ","r","a","n","g","e">>,
      <<"o","u","t","s","i","d","e"," ","r","a","n","g","e">>, <<"o","u","t","s","i","d","e"," ","l","i","m","i","t","s">>, <<"i","n","v","a","l","i","d">>, <<"i","n","v","a","l","i","d"," ","f","o","r","m","a","t">>,
      <<"i","n","v","a","l","i","d"," ","d","a","t","e">>, <<"i","n","v","a","l","i","d"," ","v","a","l","u","e">>, <<"b","e","f","o","r","e"," ","s","t","a","r","t">>, <<"a","f","t","e","r"," ","e","n","d">>,
      <<"e","n","d"," ","b","e","f","o","r","e"," ","s","t","a","r","t">>, <<"e","n","d"," ","d","a","t","e"," ","i","s"," ","b","e","f","o","r","e"," ","s","t","a","r","t">>, <<"d","u","p","l","i","c","a","t","e">>,
      <<"d","u","p","l","i","c","a","t","e"," ","r","e","c","o","r","d">>, <<"d","u","p","l","i","c","a","t","e"," ","e","n","t","r","y">>, <<"i","n","c","o","n","s","i","s","t","e","n","t"," ","u","n","i","t","s">>,
      <<"p","a","r","t","i","a","l"," ","d","a","t","e">>, <<"i","n","c","o","m","p","l","e","t","e">> }

COMPLEXITY_INDICATORS ==
    { <<"t","i","m","e","l","i","n","e"," ","c","o","n","f","l","i","c","t","s">>, <<"d","a","t","e"," ","r","e","c","o","n","c","i","l","i","a","t","i","o","n">>, <<"i","m","p","a","c","t"," ","o","n">>, <<"a","f","f","e","c","t","s">>,
      <<"c","a","l","c","u","l","a","t","i","o","n","s">>, <<"b","m","i">>, <<"c","o","m","b","i","n","a","t","i","o","n"," ","p","r","o","d","u","c","t">>, <<"c","o","d","i","n","g"," ","i","s","s","u","e">> }

SIMPLE_PATTERNS == { <<"r","e","q","u","i","r","e","d"," ","f","i","e","l","d">>, <<"f","i","e","l","d"," ","r","e","q","u","i","r","e","d">>, <<"v","a","l","u","e"," ","r","e","q","u","i","r","e","d">> }

\* DOMAIN_SPECIFIC_RULES[domain]: the patterns of each kind, in list order;
\* a domain without an entry has none
DomainLlmPatterns(domain) ==
    IF domain = <<"A","E">>
    THEN << <<"m","u","l","t","i","p","l","e"," ","r","e","l","a","t","e","d">>, <<"s","i","n","g","l","e"," ","o","r"," ","m","u","l","t","i","p","l","e">>, <<"r","e","l","a","t","e","d"," ","c","o","n","d","i","t","i","o","n","s">>,
            <<"c","l","i","n","i","c","a","l"," ","s","i","g","n","i","f","i","c","a","n","c","e">>, <<"t","i","m","e","l","i","n","e"," ","c","o","n","f","l","i","c","t","s">>, <<"d","a","t","e"," ","r","e","c","o","n","c","i","l","i","a","t","i","o","n">> >>
    ELSE IF domain = <<"L","B">>
    THEN << <<"d","i","s","c","r","e","p","a","n","c","y"," ","v","s">>, <<"d","i","f","f","e","r","s"," ","f","r","o","m">>, <<"c","l","i","n","i","c","a","l"," ","s","i","g","n","i","f","i","c","a","n","c","e">>,
            <<"s","i","g","n","i","f","i","c","a","n","c","e"," ","u","n","c","l","e","a","r">> >>
    ELSE IF domain = <<"D","M">>
    THEN << <<"i","m","p","a","c","t"," ","o","n">>, <<"a","f","f","e","c","t","s">>, <<"c","a","l","c","u","l","a","t","i","o","n","s">>, <<"b","m","i">> >>
    ELSE IF domain = <<"C","M">>
    THEN << <<"n","o","t"," ","i","n"," ","s","t","a","n","d","a","r","d">>, <<"n","o","t"," ","s","t","a","n","d","a","r","d">>, <<"u","n","c","o","m","m","o","n">>, <<"m","a","n","u","a","l"," ","r","e","v","i","e","w">>,
            <<"r","e","q","u","i","r","e","s"," ","m","a","n","u","a","l">>, <<"r","e","q","u","i","r","e","s"," ","r","e","v","i","e","w">>, <<"c","o","m","b","i","n","a","t","i","o","n"," ","p","r","o","d","u","c","t">>,
            <<"n","o","t"," ","i","n"," ","d","i","c","t","i","o","n","a","r","y">>, <<"c","o","d","i","n","g"," ","i","s","s","u","e">> >>
    ELSE <<>>
DomainDeterministicPatterns(domain) ==
    IF domain = <<"A","E">> THEN << <<"e","n","d"," ","b","e","f","o","r","e"," ","s","t","a","r","t">>, <<"e","n","d"," ","d","a","t","e"," ","i","s"," ","b","e","f","o","r","e"," ","s","t","a","r","t">> >>
    ELSE <<>>

\* ClassificationResult(issue_type, confidence, method, score)
ClassificationResult(issue_type, confidence, method, score) ==
    [issue_type |-> issue_type, confidence |-> confidence, method |-> method,
     score |-> score]

\* mutant of _is_simple_deterministic_pattern: no pattern is ever disqualified
AlwaysSimplePattern(pattern, desc_lower, domain) == TRUE

\* _is_simple_deterministic_pattern(pattern, desc_lower, domain)
_is_simple_deterministic_pattern(pattern, desc_lower, domain) ==
    IF pattern = <<"o","u","t"," ","o","f"," ","r","a","n","g","e">> THEN ~Contains(desc_lower, <<"s","i","g","n","i","f","i","c","a","n","c","e">>)
    ELSE IF pattern = <<"i","n","c","o","n","s","i","s","t","e","n","t"," ","u","n","i","t","s">>
    THEN /\ ~Contains(desc_lower, <<"i","m","p","a","c","t">>)
         /\ ~Contains(desc_lower, <<"a","f","f","e","c","t","s">>)
         /\ ~Contains(desc_lower, <<"c","a","l","c","u","l","a","t","i","o","n","s">>)
    ELSE TRUE

\* evidence.get(key), None for a key that is not there
EvidenceGet(evidence, key) ==
    IF \E j \in 1..Len(evidence.items) : evidence.items[j].k = key
    THEN evidence.items[CHOOSE j \in 1..Len(evidence.items) :
                            evidence.items[j].k = key].v
    ELSE None
EvidenceHas(evidence, key) == \E j \in 1..Len(evidence.items) : evidence.items[j].k = key

\* isinstance(evidence.get("rows"), list) and len(evidence.get("rows", [])) > 1
HasSeveralRows(evidence) ==
    /\ EvidenceGet(evidence, <<"r","o","w","s">>).t = "list"
    /\ Len(EvidenceGet(evidence, <<"r","o","w","s">>).items) > 1

\* _assess_evidence_ambiguity(evidence, description_lower): a reason or "None"
_assess_evidence_ambiguity(evidence, description_lower) ==
    IF Contains(description_lower, <<"c","o","n","f","l","i","c","t","s">>) \/ Contains(description_lower, <<"d","i","f","f","e","r","s">>)
    THEN "Conflicting values in evidence"
    ELSE IF /\ HasSeveralRows(evidence)
            /\ (Contains(description_lower, <<"a","s","s","e","s","s">>)
                \/ Contains(description_lower, <<"d","e","t","e","r","m","i","n","e">>))
    THEN "Multiple rows requiring assessment"
    ELSE IF /\ EvidenceHas(evidence, <<"s","t","a","r","t","_","d","a","t","e">>) /\ EvidenceHas(evidence, <<"e","n","d","_","d","a","t","e">>)
            /\ \E word \in {<<"c","o","n","f","l","i","c","t">>, <<"r","e","c","o","n","c","i","l","i","a","t","i","o","n">>, <<"t","i","m","e","l","i","n","e">>} :
                   Contains(description_lower, word)
    THEN "Date conflicts in evidence"
    ELSE IF /\ EvidenceHas(evidence, <<"r","e","f","e","r","e","n","c","e">>) /\ EvidenceHas(evidence, <<"v","a","l","u","e">>)
            /\ (Contains(description_lower, <<"d","i","f","f","e","r","s">>)
                \/ Contains(description_lower, <<"d","i","s","c","r","e","p","a","n","c","y">>))
    THEN "Value-reference discrepancy"
    ELSE "None"

RECURSIVE Count(_, _)
\* str.count(sub): occurrences that do not overlap, from the left
Count(s, sub) ==
    IF Find(s, sub) < 0 THEN 0
    ELSE 1 + Count(SubSeq(s, Find(s, sub) + Len(sub) + 1, Len(s)), sub)

\* lines 533-538
ClauseCount(desc_lower) ==
    Count(desc_lower, <<".">>) + Count(desc_lower, <<";">>) + Count(desc_lower, <<" ","a","n","d"," ">>)
        + Count(desc_lower, <<" ","o","r"," ">>)

ConditionalWords == { <<"i","f">>, <<"w","h","e","t","h","e","r">>, <<"m","a","y">>, <<"m","i","g","h","t">>, <<"c","o","u","l","d">>, <<"p","o","s","s","i","b","l","y">> }

\* _assess_structural_complexity(description, desc_lower): a reason or "None"
_assess_structural_complexity(description, desc_lower) ==
    IF Len(description) < 20 THEN "None"
    ELSE IF /\ Len(description) > 100
            /\ ClauseCount(desc_lower) >= 3
            /\ ~\E pattern \in DETERMINISTIC_PATTERNS : Contains(desc_lower, pattern)
    THEN "Long description with several clauses"
    ELSE IF Contains(description, <<"?">>)
    THEN "Description contains questions (uncertainty indicator)"
    ELSE IF Cardinality({word \in ConditionalWords : Contains(desc_lower, word)}) >= 2
    THEN "Multiple conditional phrases indicating uncertainty"
    ELSE "None"

\* _apply_domain_specific_rules(domain, desc_lower): the type of the first
\* matching rule, LLM-required patterns first, or "None"
_apply_domain_specific_rules(domain, desc_lower) ==
    IF \E j \in 1..Len(DomainLlmPatterns(domain)) :
           Contains(desc_lower, DomainLlmPatterns(domain)[j])
    THEN "llm_required"
    ELSE IF \E j \in 1..Len(DomainDeterministicPatterns(domain)) :
                Contains(desc_lower, DomainDeterministicPatterns(domain)[j])
    THEN "deterministic"
    ELSE "None"

\* lines 341-375: llm_score after steps 2 and 3
LlmScore(issue_create, desc_lower) ==
    (IF _assess_evidence_ambiguity(issue_create.evidence_payload, desc_lower) # "None"
     THEN 50 ELSE 0)
    + (IF _assess_structural_complexity(issue_create.description, desc_lower) # "None"
       THEN 30 ELSE 0)
    + 40 * Cardinality({ind \in COMPLEXITY_INDICATORS : Contains(desc_lower, ind)})
    + (IF _apply_domain_specific_rules(issue_create.domain, desc_lower) = "llm_required"
       THEN 60 ELSE 0)

\* lines 361-378: deterministic_score after steps 2 and 3
DeterministicScore(issue_create, desc_lower) ==
    30 * Cardinality({pattern \in SIMPLE_PATTERNS : Contains(desc_lower, pattern)})
    + (IF _apply_domain_specific_rules(issue_create.domain, desc_lower) = "deterministic"
       THEN 60 ELSE 0)

\* mutant of Decide: the deterministic accumulator is looked at first
DecideDeterministicFirst(llm_score, deterministic_score) ==
    IF deterministic_score >= 80
    THEN ClassificationResult("deterministic", "high", "rule_based",
                              llm_score - deterministic_score)
    ELSE IF llm_score >= 80
    THEN ClassificationResult("llm_required", "high", "rule_based",
                              llm_score - deterministic_score)
    ELSE IF llm_score - deterministic_score > 30
    THEN ClassificationResult("llm_required", "medium", "rule_based",
                              llm_score - deterministic_score)
    ELSE IF llm_score - deterministic_score < -30
    THEN ClassificationResult("deterministic", "medium", "rule_based",
                              llm_score - deterministic_score)
    ELSE ClassificationResult("deterministic", "low", "rule_based",
                              llm_score - deterministic_score)

\* a decision that reports deterministic minus escalation as its score
DecideScoreReversed(llm_score, deterministic_score) ==
    IF llm_score >= 80
    THEN ClassificationResult("llm_required", "high", "rule_based",
                              deterministic_score - llm_score)
    ELSE IF deterministic_score >= 80
    THEN ClassificationResult("deterministic", "high", "rule_based",
                              deterministic_score - llm_score)
    ELSE IF llm_score - deterministic_score > 30
    THEN ClassificationResult("llm_required", "medium", "rule_based",
                              deterministic_score - llm_score)
    ELSE IF llm_score - deterministic_score < -30
    THEN ClassificationResult("deterministic", "medium", "rule_based",
                              deterministic_score - llm_score)
    ELSE ClassificationResult("deterministic", "low", "rule_based",
                              deterministic_score - llm_score)

\* step 4, lines 384-436: the decision on the two accumulators
Decide(llm_score, deterministic_score) ==
    IF llm_score >= 80
    THEN ClassificationResult("llm_required", "high", "rule_based",
                              llm_score - deterministic_score)
    ELSE IF deterministic_score >= 80
    THEN ClassificationResult("deterministic", "high", "rule_based",
                              llm_score - deterministic_score)
    ELSE IF llm_score - deterministic_score > 30
    THEN ClassificationResult("llm_required", "medium", "rule_based",
                              llm_score - deterministic_score)
    ELSE IF llm_score - deterministic_score < -30
    THEN ClassificationResult("deterministic", "medium", "rule_based",
                              llm_score - deterministic_score)
    ELSE ClassificationResult("deterministic", "low", "rule_based",
                              llm_score - deterministic_score)

\* lines 314-315: some explicit keyword is in the description
KeywordHit(desc_lower) == \E keyword \in LLM_REQUIRED_KEYWORDS : Contains(desc_lower, keyword)

\* lines 325-328: some deterministic pattern is in the description and simple
PatternHit(desc_lower, domain) ==
    \E pattern \in DETERMINISTIC_PATTERNS :
        /\ Contains(desc_lower, pattern)
        /\ _is_simple_deterministic_pattern(pattern, desc_lower, domain)

\* mutant of RuleBased: the deterministic patterns are checked first
RuleBasedPatternsFirst(issue_create, desc_lower) ==
    IF PatternHit(desc_lower, issue_create.domain)
    THEN ClassificationResult("deterministic", "high", "rule_based", -100)
    ELSE IF KeywordHit(desc_lower)
    THEN ClassificationResult("llm_required", "high", "rule_based", 100)
    ELSE Decide(LlmScore(issue_create, desc_lower),
                DeterministicScore(issue_create, desc_lower))

\* the steps of _classify_rule_based on the lower-cased description
RuleBased(issue_create, desc_lower) ==
    IF KeywordHit(desc_lower)
    THEN ClassificationResult("llm_required", "high", "rule_based", 100)
    ELSE IF PatternHit(desc_lower, issue_create.domain)
    THEN ClassificationResult("deterministic", "high", "rule_based", -100)
    ELSE Decide(LlmScore(issue_create, desc_lower),
                DeterministicScore(issue_create, desc_lower))

\* _classify_rule_based(issue_create)
_classify_rule_based(issue_create) ==
    RuleBased(issue_create, _lower(issue_create.description))

\* what the try block of _classify_with_llm comes to: a result (None or a
\* ClassificationResult) or an exception
Answer(result) == [raised |-> FALSE, result |-> result]

\* lines 640-651 on the parsed JSON value; .get on a value that is no
\* object and .lower() on a classification that is no str raise
FromLlmOutput(value) ==
    IF value.t # "object" THEN Raised("AttributeError")
    ELSE IF ~Has(value.d, "classification")
    THEN Answer(ClassificationResult("deterministic", "high", "llm_fallback", None))
    ELSE IF value.d["classification"].t # "str" THEN Raised("AttributeError")
    ELSE IF _lower(value.d["classification"].s) = <<"l","l","m","_","r","e","q","u","i","r","e","d">>
    THEN Answer(ClassificationResult("llm_required", "high", "llm_fallback", None))
    ELSE Answer(ClassificationResult("deterministic", "high", "llm_fallback", None))

\* the try block of _classify_with_llm, lines 615-651
LlmAttempt(issue_create, e) ==
    IF ~_is_llm_enabled(e) THEN Answer(None)
    ELSE IF _get_openai_client(FALSE, e).kind = "raises"
    THEN Raised(_get_openai_client(FALSE, e).exc)
    ELSE IF _get_openai_client(FALSE, e).kind = "none" THEN Answer(None)
    ELSE IF e.prompt_raises THEN Raised("TypeError")
    ELSE IF e.call.kind = "raises" THEN Raised("APIError")
    ELSE IF e.call.content.kind = "none" THEN Raised("TypeError")
    ELSE IF e.call.content.kind # "json" THEN Raised("JSONDecodeError")
    ELSE FromLlmOutput(e.call.content.value)

\* mutant of ExceptNone: the exception is not handled
ExceptNothing(attempt) == attempt

\* lines 653-655: `except Exception: return None`
ExceptNone(attempt) == IF attempt.raised THEN Answer(None) ELSE attempt

\* _classify_with_llm(issue_create)
_classify_with_llm(issue_create, e) == ExceptNone(LlmAttempt(issue_create, e))

\* lines 266-272: whether the fallback is to be tried
UseLlmFallback(use_llm_fallback, e) ==
    IF use_llm_fallback # None THEN use_llm_fallback.b
    ELSE EnvFlag(e.CLASSIFIER_USE_LLM_FALLBACK)

\* the IssueType classify_issue returns
ReturnedType(issue_type) == [raised |-> FALSE, issue_type |-> issue_type]

\* lines 275-279 on what _classify_with_llm came to
AfterFallback(result, llm_result) ==
    IF llm_result.raised THEN Raised(llm_result.exc)
    ELSE IF llm_result.result # None THEN ReturnedType(llm_result.result.issue_type)
    ELSE ReturnedType(result.issue_type)

\* the fallback is tried whatever the confidence
ConsultedAnyConfidence(result, use_llm_fallback, e) == UseLlmFallback(use_llm_fallback, e)

\* lines 265-274: _classify_with_llm is invoked
Consulted(result, use_llm_fallback, e) ==
    result.confidence = "low" /\ UseLlmFallback(use_llm_fallback, e)

\* lines 618-638: _classify_with_llm gets as far as the external call
ReachesCall(e) ==
    /\ _is_llm_enabled(e)
    /\ _get_openai_client(FALSE, e).kind = "client"
    /\ ~e.prompt_raises

\* classify_issue makes the external call
ExternalCall(issue_create, use_llm_fallback, e) ==
    Consulted(_classify_rule_based(issue_create), use_llm_fallback, e) /\ ReachesCall(e)

\* lines 265-279 on the rule-based result
Classified(issue_create, result, use_llm_fallback, e) ==
    IF Consulted(result, use_llm_fallback, e)
    THEN AfterFallback(result, _classify_with_llm(issue_create, e))
    ELSE ReturnedType(result.issue_type)

\* classify_issue(issue_create, use_llm_fallback)
classify_issue(issue_create, use_llm_fallback, e) ==
    Classified(issue_create, _classify_rule_based(issue_create), use_llm_fallback, e)

-----------------------------------------------------------------------------
(* Inputs of the classifier                                                 *)

LongNarrative ==
    <<"S","u","b","j","e","c","t"," ","r","e","p","o","r","t","e","d"," ","d","i","z","z","i","n","e","s","s","."," ","S","i","t","e"," ","r","e","c","o","r","d","e","d"," ","d","o","s","e"," ","o","n"," ","d","a","y"," ","t","w","o",";"," ","v","i","s","i","t"," ","m","o","v","e","d"," ">>
    \o <<"a","n","d"," ","s","a","m","p","l","e"," ","t","a","k","e","n"," ","l","a","t","e"," ","o","r"," ","n","o","t"," ","a","t"," ","a","l","l","."," ","M","o","n","i","t","o","r"," ","a","s","k","e","d"," ","f","o","r"," ","f","o","l","l","o","w","-","u","p",".">>
LongNarrativeWithPattern ==
    <<"S","u","b","j","e","c","t"," ","r","e","p","o","r","t","e","d"," ","d","i","z","z","i","n","e","s","s","."," ","S","i","t","e"," ","r","e","c","o","r","d","e","d"," ","d","o","s","e"," ","o","n"," ","d","a","y"," ","t","w","o",";"," ","v","i","s","i","t"," ","m","o","v","e","d"," ">>
    \o <<"a","n","d"," ","s","a","m","p","l","e"," ","t","a","k","e","n"," ","l","a","t","e"," ","o","r"," ","i","s"," ","m","i","s","s","i","n","g","."," ","M","o","n","i","t","o","r"," ","a","s","k","e","d"," ","f","o","r"," ","f","o","l","l","o","w","-","u","p",".">>

ClassifyDescriptions ==
    { <<>>,
      <<"L","a","b"," ","v","a","l","u","e"," ","o","u","t"," ","o","f"," ","r","a","n","g","e">>,
      <<"O","u","t"," ","o","f"," ","r","a","n","g","e",","," ","c","l","i","n","i","c","a","l"," ","s","i","g","n","i","f","i","c","a","n","c","e"," ","u","n","c","l","e","a","r">>,
      <<"V","a","l","u","e"," ","o","u","t"," ","o","f"," ","r","a","n","g","e",";"," ","s","i","g","n","i","f","i","c","a","n","c","e"," ","t","o"," ","b","e"," ","j","u","d","g","e","d">>,
      <<"M","i","s","s","i","n","g"," ","v","a","l","u","e",","," ","o","u","t"," ","o","f"," ","r","a","n","g","e"," ","s","i","g","n","i","f","i","c","a","n","c","e">>,
      <<"I","n","c","o","n","s","i","s","t","e","n","t"," ","u","n","i","t","s"," ","a","f","f","e","c","t","s"," ","d","o","s","e">>,
      <<"I","n","c","o","n","s","i","s","t","e","n","t"," ","u","n","i","t","s"," ","r","e","c","o","r","d","e","d">>,
      <<"D","u","p","l","i","c","a","t","e"," ","r","e","c","o","r","d",","," ","r","e","q","u","i","r","e","s"," ","r","e","v","i","e","w">>,
      <<"R","E","Q","U","I","R","E","S"," ","R","E","V","I","E","W"," ","o","f"," ","d","o","s","e">>,
      <<"R","e","q","u","i","r","e","d"," ","f","i","e","l","d",","," ","f","i","e","l","d"," ","r","e","q","u","i","r","e","d",","," ","v","a","l","u","e"," ","r","e","q","u","i","r","e","d">>,
      <<"R","e","q","u","i","r","e","d"," ","f","i","e","l","d"," ","i","s"," ","e","m","p","t","y">>,
      <<"R","e","q","u","i","r","e","d"," ","f","i","e","l","d",";"," ","v","a","l","u","e"," ","r","e","q","u","i","r","e","d">>,
      <<"B","M","I"," ","c","a","l","c","u","l","a","t","i","o","n","s">>,
      <<"C","o","d","i","n","g"," ","i","s","s","u","e"," ","n","o","t","e","d">>,
      <<"B","M","I"," ","c","a","l","c","u","l","a","t","i","o","n","s",":"," ","r","e","q","u","i","r","e","d"," ","f","i","e","l","d",","," ","f","i","e","l","d"," ","r","e","q","u","i","r","e","d",","," ","v","a","l","u","e"," ","r","e","q","u","i","r","e","d">>,
      <<"C","o","d","i","n","g"," ","i","s","s","u","e",","," ","r","e","q","u","i","r","e","d"," ","f","i","e","l","d">>,
      <<"T","i","m","e","l","i","n","e"," ","t","o"," ","b","e"," ","c","h","e","c","k","e","d">>,
      <<"D","a","t","e"," ","c","o","n","f","l","i","c","t"," ","i","n"," ","r","e","c","o","r","d","?">>,
      <<"C","h","e","c","k"," ","w","h","e","t","h","e","r"," ","d","o","s","e"," ","c","o","u","l","d"," ","b","e"," ","w","r","o","n","g">>,
      <<"S","i","n","g","l","e"," ","o","r"," ","m","u","l","t","i","p","l","e"," ","e","v","e","n","t","s">>,
      <<"P","l","e","a","s","e"," ","a","s","s","e","s","s"," ","r","o","w","s">>,
      <<"V","a","l","u","e"," ","d","i","f","f","e","r","s">>,
      <<"P","e","n","d","i","n","g"," ","e","n","t","r","y">>,
      LongNarrative,
      LongNarrativeWithPattern }

ClassifyDomains == { <<"A","E">>, <<"L","B">>, <<"D","M">>, <<"C","M">>, <<"V","S">> }

EvRows ==
    JDict(<<KV(<<"r","o","w","s">>, JList(<<JDict(<<KV(<<"v","i","s","i","t">>, JInt(1))>>),
                                JDict(<<KV(<<"v","i","s","i","t">>, JInt(2))>>)>>))>>)
EvOneRow == JDict(<<KV(<<"r","o","w","s">>, JList(<<JDict(<<KV(<<"v","i","s","i","t">>, JInt(1))>>)>>))>>)
EvReference == JDict(<<KV(<<"r","e","f","e","r","e","n","c","e">>, JInt(5)), KV(<<"v","a","l","u","e">>, JInt(7))>>)

ClassifyEvidences == {EvEmpty, EvEndBeforeStart, EvRows, EvOneRow, EvReference}

ClassifyIssues ==
    { IssueCreate("edit_check", dom, "SUBJ-001", <<>>, d, ev) :
        dom \in ClassifyDomains, d \in ClassifyDescriptions, ev \in ClassifyEvidences }

\* issues of every confidence, for the environments of the fallback
FallbackIssues ==
    { IssueCreate("edit_check", <<"V","S">>, "SUBJ-001", <<>>, d, EvEmpty) :
        d \in { <<>>, <<"P","e","n","d","i","n","g"," ","e","n","t","r","y">>, <<"R","e","q","u","i","r","e","d"," ","f","i","e","l","d"," ","i","s"," ","e","m","p","t","y">>,
                <<"C","o","d","i","n","g"," ","i","s","s","u","e"," ","n","o","t","e","d">>, <<"L","a","b"," ","v","a","l","u","e"," ","o","u","t"," ","o","f"," ","r","a","n","g","e">> } }

\* the JSON object {"classification": value}
Verdict(value) == [t |-> "object", d |-> [classification |-> value]]

\* an environment in which the fallback gets the given response
FallbackEnv(call) ==
    [LLM_ENABLED |-> JStr(<<"1">>), OPENAI_API_KEY |-> JStr(<<"s","k","-","t","e","s","t">>),
     openai_installed |-> TRUE, client_ctor_raises |-> FALSE,
     prompt_raises |-> FALSE, call |-> call,
     CLASSIFIER_USE_LLM_FALLBACK |-> JStr(<<"t","r","u","e">>)]

AnswersLlmRequired == FallbackEnv(JsonContent(Verdict(JStr(<<"l","l","m","_","r","e","q","u","i","r","e","d">>))))

\* the fallback answers
AnsweringEnvs ==
    { AnswersLlmRequired,
      FallbackEnv(JsonContent(Verdict(JStr(<<"L","L","M","_","R","e","q","u","i","r","e","d">>)))),
      FallbackEnv(JsonContent(Verdict(JStr(<<"d","e","t","e","r","m","i","n","i","s","t","i","c">>)))),
      FallbackEnv(JsonContent(Verdict(JStr(<<"e","s","c","a","l","a","t","e">>)))),
      FallbackEnv(JsonContent([t |-> "object", d |-> EmptyObject])) }

\* the fallback fails: disabled, no client, the call raises, or the
\* response is malformed or no JSON
FailingFallbackEnvs ==
    { [AnswersLlmRequired EXCEPT !.LLM_ENABLED = Unset],
      [AnswersLlmRequired EXCEPT !.LLM_ENABLED = JStr(<<"0">>)],
      [AnswersLlmRequired EXCEPT !.openai_installed = FALSE],
      [AnswersLlmRequired EXCEPT !.OPENAI_API_KEY = Unset],
      [AnswersLlmRequired EXCEPT !.client_ctor_raises = TRUE],
      [AnswersLlmRequired EXCEPT !.prompt_raises = TRUE],
      FallbackEnv([kind |-> "raises"]),
      FallbackEnv([kind |-> "content", content |-> [kind |-> "none"]]),
      FallbackEnv([kind |-> "content", content |-> [kind |-> "not_json"]]),
      FallbackEnv(JsonContent(JList(<<JStr(<<"l","l","m","_","r","e","q","u","i","r","e","d">>)>>))),
      FallbackEnv(JsonContent(JStr(<<"l","l","m","_","r","e","q","u","i","r","e","d">>))),
      FallbackEnv(JsonContent(Verdict(JNull))),
      FallbackEnv(JsonContent(Verdict(JInt(1)))) }

ClassifyEnvs ==
    { [e EXCEPT !.CLASSIFIER_USE_LLM_FALLBACK = v] :
        e \in AnsweringEnvs \cup FailingFallbackEnvs,
        v \in {Unset, JStr(<<"t","r","u","e">>), JStr(<<"n","o">>)} }

ClassifyInputs ==
    { [issue_create |-> ic, e |-> AnswersLlmRequired] : ic \in ClassifyIssues }
    \cup { [issue_create |-> ic, e |-> e] : ic \in FallbackIssues, e \in ClassifyEnvs }

-----------------------------------------------------------------------------
(* SpecClassify: one call of classify_issue; issue holds the IssueCreate,   *)
(* env the environment of the call                                          *)

InitClassify ==
    /\ \E in \in ClassifyInputs : issue = in.issue_create /\ env = in.e
    /\ outcome = Idle
    /\ refineIn = Idle /\ refineOut = Idle
    /\ searchIn = Idle /\ searchOut = Idle
    /\ ISSUES = <<>> /\ RUNS = <<>> /\ AUDIT = <<>> /\ DOCUMENTS = <<>>
    /\ DECISIONS = <<>>
    /\ response = Idle /\ trace = <<>>

Classify ==
    \E use_llm_fallback \in Switch :
        /\ outcome = Idle
        /\ outcome' = [kind |-> "done", use_llm_fallback |-> use_llm_fallback,
                       rule_based |-> _classify_rule_based(issue),
                       attempt |-> LlmAttempt(issue, env),
                       external_call |-> ExternalCall(issue, use_llm_fallback, env),
                       result |-> classify_issue(issue, use_llm_fallback, env)]
        /\ UNCHANGED <<issue, env, refineIn, refineOut, searchIn, searchOut,
                       ISSUES, RUNS, AUDIT, DOCUMENTS, DECISIONS, response, trace>>

NextClassify == Classify

SpecClassify == InitClassify /\ [][NextClassify]_vars

-----------------------------------------------------------------------------
(* Claims about the classifier                                              *)

ClassifyDone == outcome # Idle

\* some phrase of the set is in the lower-cased description
Mentions(issue_create, phrases) ==
    \E phrase \in phrases : Contains(_lower(issue_create.description), phrase)

ExplicitComplexity(issue_create) == Mentions(issue_create, LLM_REQUIRED_KEYWORDS)

\* C11: for every issue whose lower-cased description contains an
\* explicit-complexity phrase, rule-based classification returns LLM_REQUIRED
\* with confidence high and score +1.0, whatever deterministic-pattern
\* phrase the description holds and whatever the evidence and the domain.
C11_KeywordShortCircuit ==
    (ClassifyDone /\ ExplicitComplexity(issue)) =>
        outcome.rule_based =
            ClassificationResult("llm_required", "high", "rule_based", 100)

C11_Witness ==
    /\ ClassifyDone
    /\ issue.description = <<"D","u","p","l","i","c","a","t","e"," ","r","e","c","o","r","d",","," ","r","e","q","u","i","r","e","s"," ","r","e","v","i","e","w">>
    /\ Mentions(issue, DETERMINISTIC_PATTERNS)
    /\ issue.domain = <<"A","E">> /\ issue.evidence_payload = EvEndBeforeStart
    /\ outcome.rule_based.issue_type = "llm_required"
    /\ outcome.rule_based.score = 100

\* the exclusion check of a deterministic-pattern phrase, as stated
Disqualified(issue_create, phrase) ==
    \/ phrase = <<"o","u","t"," ","o","f"," ","r","a","n","g","e">> /\ Mentions(issue_create, {<<"s","i","g","n","i","f","i","c","a","n","c","e">>})
    \/ /\ phrase = <<"i","n","c","o","n","s","i","s","t","e","n","t"," ","u","n","i","t","s">>
       /\ Mentions(issue_create, {<<"i","m","p","a","c","t">>, <<"a","f","f","e","c","t","s">>, <<"c","a","l","c","u","l","a","t","i","o","n","s">>})

QualifiedPattern(issue_create) ==
    \E phrase \in DETERMINISTIC_PATTERNS :
        Mentions(issue_create, {phrase}) /\ ~Disqualified(issue_create, phrase)

\* C12: when no explicit-complexity phrase is present, the result is
\* DETERMINISTIC / high / -1.0 if and only if the description contains a
\* deterministic-pattern phrase that its own exclusion check does not
\* disqualify; a disqualified phrase does not stop another matching phrase.
C12_PatternShortCircuit ==
    (ClassifyDone /\ ~ExplicitComplexity(issue)) =>
        ( outcome.rule_based =
              ClassificationResult("deterministic", "high", "rule_based", -100)
          <=> QualifiedPattern(issue) )

C12_Witness ==
    /\ ClassifyDone /\ ~ExplicitComplexity(issue)
    /\ issue.description = <<"M","i","s","s","i","n","g"," ","v","a","l","u","e",","," ","o","u","t"," ","o","f"," ","r","a","n","g","e"," ","s","i","g","n","i","f","i","c","a","n","c","e">>
    /\ Disqualified(issue, <<"o","u","t"," ","o","f"," ","r","a","n","g","e">>)
    /\ outcome.rule_based.issue_type = "deterministic"
    /\ outcome.rule_based.confidence = "high"
    /\ outcome.rule_based.score = -100

\* a disqualified phrase alone does not short-circuit
C12_DisqualifiedWitness ==
    /\ ClassifyDone /\ ~ExplicitComplexity(issue)
    /\ issue.description = <<"I","n","c","o","n","s","i","s","t","e","n","t"," ","u","n","i","t","s"," ","a","f","f","e","c","t","s"," ","d","o","s","e">>
    /\ outcome.rule_based.score # -100

\* the accumulators of an issue
Escalation(issue_create) == LlmScore(issue_create, _lower(issue_create.description))
Deterministic(issue_create) ==
    DeterministicScore(issue_create, _lower(issue_create.description))

\* the decision the thresholds prescribe, as <<issue_type, confidence>>
Prescribed(l, d) ==
    IF l >= 80 THEN <<"llm_required", "high">>
    ELSE IF d >= 80 THEN <<"deterministic", "high">>
    ELSE IF l - d > 30 THEN <<"llm_required", "medium">>
    ELSE IF l - d < -30 THEN <<"deterministic", "medium">>
    ELSE <<"deterministic", "low">>

\* C13: when neither short-circuit fires, the result is LLM_REQUIRED/high if
\* the escalation accumulator is >= 0.8 (checked first), else
\* DETERMINISTIC/high if the deterministic accumulator is >= 0.8, else
\* LLM_REQUIRED/medium if net > 0.3, else DETERMINISTIC/medium if net < -0.3,
\* else DETERMINISTIC/low; an issue with no signals is DETERMINISTIC/low.
C13_DecisionThresholds ==
    (ClassifyDone /\ ~ExplicitComplexity(issue) /\ ~QualifiedPattern(issue)) =>
        /\ <<outcome.rule_based.issue_type, outcome.rule_based.confidence>>
               = Prescribed(Escalation(issue), Deterministic(issue))
        /\ outcome.rule_based.score = Escalation(issue) - Deterministic(issue)
        /\ (Escalation(issue) = 0 /\ Deterministic(issue) = 0) =>
               /\ outcome.rule_based.issue_type = "deterministic"
               /\ outcome.rule_based.confidence = "low"

C13_Witness ==
    /\ ClassifyDone /\ ~ExplicitComplexity(issue) /\ ~QualifiedPattern(issue)
    /\ Escalation(issue) >= 80 /\ Deterministic(issue) >= 80
    /\ outcome.rule_based.issue_type = "llm_required"
    /\ outcome.rule_based.confidence = "high"

\* the boundaries: a net score of exactly 0.3 or -0.3 is low
C13_BoundaryWitness ==
    /\ ClassifyDone /\ ~ExplicitComplexity(issue) /\ ~QualifiedPattern(issue)
    /\ Escalation(issue) - Deterministic(issue) = -30
    /\ outcome.rule_based.confidence = "low"

\* the ways the tie-break capability fails: it is disabled, there is no
\* client, the call raises, or the response is malformed or no JSON
FallbackFails(e) ==
    \/ ~EnvFlag(e.LLM_ENABLED)
    \/ ~e.openai_installed \/ NoApiKey(e) \/ e.client_ctor_raises
    \/ e.prompt_raises
    \/ e.call.kind = "raises"
    \/ e.call.content.kind # "json"
    \/ e.call.content.value.t # "object"
    \/ /\ Has(e.call.content.value.d, "classification")
       /\ e.call.content.value.d["classification"].t # "str"

FallbackTried ==
    /\ ClassifyDone /\ outcome.rule_based.confidence = "low"
    /\ UseLlmFallback(outcome.use_llm_fallback, env)

\* C14: when the rule-based result has low confidence, the fallback is
\* enabled and the tie-break capability fails in any way, classify_issue
\* raises nothing and returns the rule-based result, DETERMINISTIC.
C14_FallbackGuarantee ==
    (FallbackTried /\ FallbackFails(env)) =>
        /\ ~outcome.result.raised
        /\ outcome.result.issue_type = outcome.rule_based.issue_type
        /\ outcome.result.issue_type = "deterministic"

C14_Witness ==
    /\ FallbackTried /\ FallbackFails(env)
    /\ outcome.attempt.raised
    /\ env.client_ctor_raises
    /\ ~outcome.result.raised
    /\ outcome.result.issue_type = "deterministic"

\* the fallback decides when it answers
C14_AnswerTaken ==
    (FallbackTried /\ env = AnswersLlmRequired) =>
        outcome.result = ReturnedType("llm_required")

-----------------------------------------------------------------------------
(* Claims about the order of the stages of an analysis run                  *)

\* C15: within one analysis run the rule engine completes before retrieval
\* (the query is built from the engine's rule), retrieval with its citable
\* floor and the assignment of citations and citation_hits completes before
\* the refiner is invoked, so the recommendation handed to the refiner
\* carries the citation set that the run stores, and nothing changes the
\* citation set after refinement.
C15_RefinerSeesFinalCitations ==
    \A k \in StoredRuns :
        LET st == trace[k].stages
            rec == RunOf(k).recommendation
            i == ISSUES[trace[k].issue_id]
        IN  /\ st.query = QueryOf(i, analyze_issue(i).rec)
            /\ st.engine.citations = analyze_issue(i).rec.citations
            /\ st.cited.severity = st.engine.severity
            /\ st.cited.citations
                   = [j \in 1..Len(SelectSeq(st.found, LAMBDA h : h.score >= 40)) |->
                         SelectSeq(st.found, LAMBDA h : h.score >= 40)[j].doc_id]
            /\ Len(st.cited.citation_hits) = Len(st.cited.citations)
            /\ st.refiner_given = st.cited
            /\ st.refiner_returned.citations = st.cited.citations
            /\ st.refiner_returned.citation_hits = st.cited.citation_hits
            /\ rec.citations = st.cited.citations
            /\ Get(rec.tool_results, "citation_hits", None) = st.cited.citation_hits

C15_Witness ==
    \E k \in StoredRuns :
        /\ trace[k].stages.refiner_called
        /\ Get(RunOf(k).recommendation.tool_results, "llm_enhanced", FALSE)
        /\ trace[k].stages.engine.citations = <<>>
        /\ Len(trace[k].stages.found) > Len(trace[k].stages.cited.citations)
        /\ trace[k].stages.cited.citations # <<>>
        /\ trace[k].stages.refiner_given.citations = RunOf(k).recommendation.citations

-----------------------------------------------------------------------------
(* Claims about the configuration of an analysis run                        *)

\* the request of a stored run, its issue and its recommendation
ReqOf(k) == trace[k].req
IssueOf(k) == ISSUES[trace[k].issue_id]

\* the refinement step was entered: the run is marked as enhanced or as
\* requested and failed
RefinementAttempted(k) ==
    \/ Get(RunOf(k).recommendation.tool_results, "llm_enhanced", FALSE)
    \/ Get(RunOf(k).recommendation.tool_results, "llm_requested", FALSE)

\* the strategy and the switch of refinement follow request, then handling
\* mode or environment, then the default
SwitchesFollowPrecedence(k) ==
    LET rag_method == RunOf(k).recommendation.tool_results.rag_method
        required == IssueOf(k).issue_type = "llm_required"
    IN  /\ ReqOf(k).use_semantic_rag = JBool(TRUE) => rag_method = "semantic"
        /\ ReqOf(k).use_semantic_rag = JBool(FALSE) => rag_method = "keyword"
        /\ ReqOf(k).use_semantic_rag = None =>
              rag_method = IF required \/ EnvFlag(env.RAG_SEMANTIC)
                           THEN "semantic" ELSE "keyword"
        /\ ReqOf(k).use_llm = JBool(TRUE) => RefinementAttempted(k)
        /\ ReqOf(k).use_llm = JBool(FALSE) =>
              ~RefinementAttempted(k) /\ ~trace[k].stages.refiner_called
        /\ ReqOf(k).use_llm = None =>
              (RefinementAttempted(k) <=> required \/ EnvFlag(env.LLM_ENABLED))

\* the model a refined run records
RecordedModel(k) == Get(RunOf(k).recommendation.tool_results, "llm_model", "None")
Refined(k) == Get(RunOf(k).recommendation.tool_results, "llm_enhanced", FALSE)

\* C16: a request-level value for the retrieval strategy, for enabling
\* refinement and for the refinement model, when present, always decides;
\* only when the request leaves it unset does the handling mode or the
\* environment decide, and only when that is unset too does the default
\* (keyword retrieval, no refinement, gpt-4o-mini) apply.
C16_ConfigurationPrecedence ==
    \A k \in StoredRuns :
        /\ SwitchesFollowPrecedence(k)
        /\ Refined(k) =>
              RecordedModel(k) =
                  IF ReqOf(k).llm_model # "None" THEN ReqOf(k).llm_model
                  ELSE IF env.LLM_MODEL # "unset" THEN env.LLM_MODEL
                  ELSE "gpt-4o-mini"

\* what does hold: the switches follow the precedence, and so does the
\* model for every request whose llm_model is not the empty string
C16_PrecedenceUnlessModelEmpty ==
    \A k \in StoredRuns :
        /\ SwitchesFollowPrecedence(k)
        /\ (Refined(k) /\ ReqOf(k).llm_model # "") =>
              RecordedModel(k) =
                  IF ReqOf(k).llm_model # "None" THEN ReqOf(k).llm_model
                  ELSE IF env.LLM_MODEL # "unset" THEN env.LLM_MODEL
                  ELSE "gpt-4o-mini"

\* use_llm=false suppresses refinement of an LLM_REQUIRED issue with
\* LLM_ENABLED set
C16_SuppressedWitness ==
    \E k \in StoredRuns :
        /\ ReqOf(k).use_llm = JBool(FALSE)
        /\ IssueOf(k).issue_type = "llm_required" /\ EnvFlag(env.LLM_ENABLED)
        /\ ~RefinementAttempted(k)

\* use_llm=true refines a deterministic issue with LLM_ENABLED unset
C16_ForcedWitness ==
    \E k \in StoredRuns :
        /\ ReqOf(k).use_llm = JBool(TRUE)
        /\ IssueOf(k).issue_type = "deterministic" /\ env.LLM_ENABLED = Unset
        /\ Refined(k)

\* a request with llm_model "" refined under the environment's model
C16_EmptyModelWitness ==
    \E k \in StoredRuns :
        /\ ReqOf(k).llm_model = "" /\ Refined(k)
        /\ env.LLM_MODEL = "gpt-4" /\ RecordedModel(k) = "gpt-4"

-----------------------------------------------------------------------------
(* SpecRange: analyze_issue on one numeric leaf at and around the limits    *)

\* keys of a numeric leaf with the interval stated for its kind
RangeCases ==
    { [key |-> <<"h","r">>, lo |-> 30, hi |-> 220],
      [key |-> <<"P","u","l","s","e">>, lo |-> 30, hi |-> 220],
      [key |-> <<"s","y","s","b","p">>, lo |-> 50, hi |-> 250],
      [key |-> <<"S","B","P">>, lo |-> 50, hi |-> 250],
      [key |-> <<"d","i","a">>, lo |-> 30, hi |-> 150],
      [key |-> <<"d","b","p">>, lo |-> 30, hi |-> 150],
      [key |-> <<"t","e","m","p">>, lo |-> 34, hi |-> 43],
      [key |-> <<"w","e","i","g","h","t">>, lo |-> -1000000, hi |-> 1000000] }

\* every limit, its two neighbours, and the nearest hundredths
RangeLimits == {30, 34, 43, 50, 150, 220, 250, 1000000, -1000000}
RangeValues ==
    { JInt(n + d) : n \in RangeLimits, d \in {-1, 0, 1} }
    \cup { JFloat(100 * n + d) : n \in RangeLimits, d \in {-1, 0, 1} }

\* the leaf at the top of the evidence, or inside a list of records
RangeEvidence(key, value, nested) ==
    IF nested
    THEN JDict(<<KV(<<"v","i","t","a","l","s">>, JList(<<JDict(<<KV(key, value)>>)>>))>>)
    ELSE JDict(<<KV(key, value)>>)

RangeIssues ==
    { [subject_id |-> "SUBJ-001", domain |-> <<"V","S">>, fields |-> <<"VSORRES">>,
       description |-> <<"V","i","t","a","l"," ","s","i","g","n"," ","c","h","e","c","k">>,
       evidence_payload |-> RangeEvidence(c.key, v, nested)] :
      c \in RangeCases, v \in RangeValues, nested \in BOOLEAN }

InitRange ==
    /\ issue \in RangeIssues
    /\ outcome = Idle
    /\ refineIn = Idle /\ refineOut = Idle
    /\ searchIn = Idle /\ searchOut = Idle
    /\ ISSUES = <<>> /\ RUNS = <<>> /\ AUDIT = <<>> /\ DOCUMENTS = <<>>
    /\ DECISIONS = <<>>
    /\ env = Idle /\ response = Idle /\ trace = <<>>

NextRange == AnalyzeIssue

SpecRange == InitRange /\ [][NextRange]_vars

\* the leaf of the issue: its key, its value in hundredths, and the
\* interval stated for the key
LeafKV ==
    IF issue.evidence_payload.items[1].v.t = "list"
    THEN issue.evidence_payload.items[1].v.items[1].items[1]
    ELSE issue.evidence_payload.items[1]
LeafV100 == IF LeafKV.v.t = "int" THEN 100 * LeafKV.v.v ELSE LeafKV.v.v100
Stated == CHOOSE c \in RangeCases : c.key = LeafKV.k
RangeDone == outcome # Idle /\ outcome.kind = "done" /\ issue \in RangeIssues
Flagged ==
    /\ ~outcome.result.raised
    /\ outcome.result.rec.tool_results.rule_fired = "OUT_OF_RANGE"
    /\ outcome.result.rec.tool_results.signals.out_of_range_count = 1
    /\ outcome.result.rec.tool_results.signals.out_of_range_values[1].value = LeafKV.v

\* C17: out-of-range boundaries are inclusive: a heart-rate leaf ('hr' or
\* 'pulse') is not flagged for 30 and 220 and is flagged for 29 and 221;
\* systolic is flagged exactly outside [50,250], diastolic exactly outside
\* [30,150], temperature exactly outside [34,43], and any other key exactly
\* outside [-1000000, 1000000].
C17_InclusiveBoundaries ==
    RangeDone =>
        /\ ~outcome.result.raised
        /\ Flagged <=> (LeafV100 < 100 * Stated.lo \/ LeafV100 > 100 * Stated.hi)
        /\ ~Flagged => outcome.result.rec.tool_results.rule_fired = "FALLBACK"

\* a heart rate of exactly 220 was analysed and not flagged
C17_Witness ==
    /\ RangeDone /\ LeafKV.k = <<"h","r">> /\ LeafKV.v = JInt(220)
    /\ ~Flagged

\* a heart rate of 221, and one of 29.99, was analysed and flagged
C17_FlaggedWitness ==
    /\ RangeDone /\ LeafKV.k \in {<<"h","r">>, <<"P","u","l","s","e">>}
    /\ LeafKV.v \in {JInt(221), JFloat(2999)}
    /\ Flagged

-----------------------------------------------------------------------------
(* SpecAudit: analyze_issue on evidence payloads of growing size            *)

MaxEvidence == 7

\* what each entry of a growing payload looks like: free-text notes under
\* keys that contain "start", records under keys that contain "end"
\* ("vendor_1") next to a pair of inconsistent dates, heart rates out of
\* range, and blanks
GrowthKinds ==
    { [base |-> <<>>, prefix |-> <<"s","t","a","r","t","_","n","o","t","e","_">>,
       value |-> JList(<<JStr(<<"f","r","e","e"," ","t","e","x","t">>), JInt(7)>>)],
      [base |-> <<KV(<<"s","t","a","r","t","_","d","a","t","e">>, JStr(<<"2","0","2","4","-","0","1","-","1","5">>)),
                  KV(<<"e","n","d","_","d","a","t","e">>, JStr(<<"2","0","2","4","-","0","1","-","1","0">>))>>,
       prefix |-> <<"v","e","n","d","o","r","_">>,
       value |-> JDict(<<KV(<<"n","a","m","e">>, JStr(<<"A","C","M","E">>)), KV(<<"s","i","t","e">>, JInt(12))>>)],
      [base |-> <<>>, prefix |-> <<"h","r","_">>, value |-> JInt(999)],
      [base |-> <<>>, prefix |-> <<"n","o","t","e","_">>, value |-> JNull] }

\* the payload of a kind with n entries
Grow(kind, n) ==
    JDict(kind.base \o [j \in 1..n |-> KV(kind.prefix \o IntToStr(j), kind.value)])

AuditDescriptions ==
    { <<"A","E"," ","e","n","d"," ","d","a","t","e"," ","i","s"," ","b","e","f","o","r","e"," ","s","t","a","r","t"," ","d","a","t","e">>, <<"M","i","s","s","i","n","g"," ","r","e","q","u","i","r","e","d"," ","f","i","e","l","d"," ","A","E","S","E","R">>,
      <<"L","a","b"," ","v","a","l","u","e"," ","o","u","t"," ","o","f"," ","r","a","n","g","e">>, <<"P","o","s","s","i","b","l","e"," ","d","u","p","l","i","c","a","t","e"," ","r","e","c","o","r","d">>, <<"P","e","n","d","i","n","g"," ","r","e","v","i","e","w">> }

AuditIssues ==
    { [subject_id |-> "SUBJ-001", domain |-> <<"A","E">>, fields |-> <<"AESTDTC", "AEENDTC">>,
       description |-> d, evidence_payload |-> Grow(kind, n)] :
      d \in AuditDescriptions, kind \in GrowthKinds, n \in 0..MaxEvidence }

InitAudit ==
    /\ issue \in AuditIssues
    /\ outcome = Idle
    /\ refineIn = Idle /\ refineOut = Idle
    /\ searchIn = Idle /\ searchOut = Idle
    /\ ISSUES = <<>> /\ RUNS = <<>> /\ AUDIT = <<>> /\ DOCUMENTS = <<>>
    /\ DECISIONS = <<>>
    /\ env = Idle /\ response = Idle /\ trace = <<>>

NextAudit == AnalyzeIssue

SpecAudit == InitAudit /\ [][NextAudit]_vars

RECURSIVE JsonSize(_), JsonSizeAll(_)
\* the number of nodes of a JSON value
JsonSize(v) ==
    IF v.t = "dict" THEN 1 + JsonSizeAll([j \in 1..Len(v.items) |-> v.items[j].v])
    ELSE IF v.t = "list" THEN 1 + JsonSizeAll(v.items)
    ELSE 1
JsonSizeAll(vs) == IF vs = <<>> THEN 0 ELSE JsonSize(Head(vs)) + JsonSizeAll(Tail(vs))

\* the evidence values that tool_results carries: those of the date
\* candidates of rule 1 and of the out-of-range values of rule 3
RecordedValues(tool_results) ==
    IF tool_results.rule_fired = "AE_DATE_INCONSISTENCY"
    THEN [j \in 1..Len(tool_results.signals.date_candidates.start_candidates) |->
             tool_results.signals.date_candidates.start_candidates[j].value]
         \o [j \in 1..Len(tool_results.signals.date_candidates.end_candidates) |->
                tool_results.signals.date_candidates.end_candidates[j].value]
    ELSE IF tool_results.rule_fired = "OUT_OF_RANGE"
    THEN [j \in 1..Len(tool_results.signals.out_of_range_values) |->
             tool_results.signals.out_of_range_values[j].value]
    ELSE <<>>
RecordedSize(tool_results) == JsonSizeAll(RecordedValues(tool_results))

\* the keys under which tool_results carries them
RecordedKeys(tool_results) ==
    IF tool_results.rule_fired = "AE_DATE_INCONSISTENCY"
    THEN [j \in 1..Len(tool_results.signals.date_candidates.start_candidates) |->
             tool_results.signals.date_candidates.start_candidates[j].key]
         \o [j \in 1..Len(tool_results.signals.date_candidates.end_candidates) |->
                tool_results.signals.date_candidates.end_candidates[j].key]
    ELSE IF tool_results.rule_fired = "OUT_OF_RANGE"
    THEN [j \in 1..Len(tool_results.signals.out_of_range_values) |->
             tool_results.signals.out_of_range_values[j].key_path]
    ELSE <<>>

\* every entry of the evidence payload is in tool_results with its value
FullPayloadRecorded(i, tool_results) ==
    /\ i.evidence_payload.items # <<>>
    /\ \A j \in 1..Len(i.evidence_payload.items) :
          \E m \in 1..Len(RecordedValues(tool_results)) :
              /\ RecordedKeys(tool_results)[m] = i.evidence_payload.items[j].k
              /\ RecordedValues(tool_results)[m] = i.evidence_payload.items[j].v

\* the issue with the last entry of its evidence taken away
OneEntryLess(i) ==
    [i EXCEPT !.evidence_payload =
        JDict(SubSeq(i.evidence_payload.items, 1, Len(i.evidence_payload.items) - 1))]

AuditDone ==
    /\ outcome # Idle /\ outcome.kind = "done" /\ issue \in AuditIssues
    /\ ~outcome.result.raised

\* C18: for every issue and every rule that fires, tool_results has the
\* rule tag, the triggering signals and a small evidence summary (subject
\* id, fields) but never the full evidence payload, and its size does not
\* grow with the size of the evidence payload: beyond the first few entries
\* (five, the cap of the out-of-range values) one more entry of evidence
\* adds nothing to it, and no recorded value is a container.
C18_BoundedAuditRecord ==
    AuditDone =>
        LET tr == outcome.result.rec.tool_results
        IN  /\ tr.rule_fired \in RuleTags
            /\ tr.evidence_summary = [subject_id |-> issue.subject_id,
                                      fields |-> issue.fields]
            /\ Len(issue.evidence_payload.items) > 5 =>
                  /\ ~FullPayloadRecorded(issue, tr)
                  /\ RecordedSize(tr)
                        = RecordedSize(analyze_issue(OneEntryLess(issue)).rec.tool_results)
            /\ \A m \in 1..Len(RecordedValues(tr)) :
                  RecordedValues(tr)[m].t \notin {"dict", "list"}

\* what does hold: the record is bounded under every rule but the
\* date-inconsistency rule
C18_BoundedUnlessDateRule ==
    AuditDone =>
        LET tr == outcome.result.rec.tool_results
        IN  /\ tr.rule_fired \in RuleTags
            /\ tr.evidence_summary = [subject_id |-> issue.subject_id,
                                      fields |-> issue.fields]
            /\ tr.rule_fired # "AE_DATE_INCONSISTENCY" =>
                  /\ Len(issue.evidence_payload.items) > 5 =>
                        /\ ~FullPayloadRecorded(issue, tr)
                        /\ RecordedSize(tr)
                              = RecordedSize(analyze_issue(OneEntryLess(issue)).rec.tool_results)
                  /\ \A m \in 1..Len(RecordedValues(tr)) :
                        RecordedValues(tr)[m].t \notin {"dict", "list"}

\* the date rule fired on a payload of seven notes and recorded all seven
C18_FullPayloadWitness ==
    /\ AuditDone
    /\ Len(issue.evidence_payload.items) = 7
    /\ outcome.result.rec.tool_results.rule_fired = "AE_DATE_INCONSISTENCY"
    /\ FullPayloadRecorded(issue, outcome.result.rec.tool_results)
    /\ RecordedSize(outcome.result.rec.tool_results) = 21

\* rule 3 fired on seven heart rates and recorded five of them
C18_CappedWitness ==
    /\ AuditDone
    /\ Len(issue.evidence_payload.items) = 7
    /\ outcome.result.rec.tool_results.rule_fired = "OUT_OF_RANGE"
    /\ outcome.result.rec.tool_results.signals.out_of_range_count = 7
    /\ RecordedSize(outcome.result.rec.tool_results) = 5

-----------------------------------------------------------------------------
(* Claims about the retrieval query                                         *)

\* the phrases that _build_doc_query appends for a rule
RulePhrases ==
    { <<"a","d","v","e","r","s","e"," ","e","v","e","n","t"," ","d","a","t","e"," ","s","t","a","r","t"," ","e","n","d"," ","i","n","c","o","n","s","i","s","t","e","n","c","y">>,
      <<"m","i","s","s","i","n","g"," ","r","e","q","u","i","r","e","d"," ","f","i","e","l","d"," ","d","a","t","a"," ","q","u","a","l","i","t","y">>,
      <<"o","u","t"," ","o","f"," ","r","a","n","g","e"," ","l","i","m","i","t","s"," ","v","a","l","i","d","a","t","i","o","n">>,
      <<"d","u","p","l","i","c","a","t","e"," ","r","e","c","o","r","d"," ","d","e","-","d","u","p","l","i","c","a","t","i","o","n"," ","d","a","t","a"," ","q","u","a","l","i","t","y">>,
      <<"d","a","t","a"," ","q","u","a","l","i","t","y"," ","i","s","s","u","e">> }

\* the rule of a stored run and the domain tag of its issue
RuleOf(k) == Get(RunOf(k).recommendation.tool_results, "rule_fired", "None")
DomainTag(k) == Strip(IssueOf(k).domain)

\* the query is the domain tag with a rule phrase or with the description
QueryWellFormed(k) ==
    /\ \/ \E phrase \in RulePhrases :
             trace[k].stages.query = DomainTag(k) \o <<" ">> \o phrase
       \/ /\ IssueOf(k).description # <<>>
          /\ trace[k].stages.query
                = Strip(DomainTag(k) \o <<" ">> \o IssueOf(k).description)
    /\ IssueOf(k).description # <<>> => trace[k].stages.query # DomainTag(k)

\* C19: for every rule tag the rule engine can emit (AE_DATE_INCONSISTENCY,
\* MISSING_CRITICAL_FIELD, OUT_OF_RANGE, DUPLICATE_RECORD, FALLBACK) the
\* retrieval query is the issue's domain tag followed by that rule's phrase
\* or, when no rule phrase applies, by the issue's description; it is never
\* the bare domain tag when the issue has a non-empty description.
C19_QueryConstruction ==
    \A k \in StoredRuns :
        /\ RuleOf(k) \in RuleTags
        /\ QueryWellFormed(k)

\* what does hold: the query is built so for the tags
\* AE_DATE_INCONSISTENCY, MISSING_CRITICAL_FIELD and FALLBACK, and is the
\* bare domain tag for OUT_OF_RANGE and DUPLICATE_RECORD
C19_QueryOfKnownTags ==
    \A k \in StoredRuns :
        /\ RuleOf(k) \in RuleTags
        /\ RuleOf(k) \in {"AE_DATE_INCONSISTENCY", "MISSING_CRITICAL_FIELD", "FALLBACK"}
              => QueryWellFormed(k)
        /\ RuleOf(k) \in {"OUT_OF_RANGE", "DUPLICATE_RECORD"}
              => trace[k].stages.query = DomainTag(k)

\* a run of an out-of-range issue with a description searched for the
\* bare domain tag
C19_BareTagWitness ==
    \E k \in StoredRuns :
        /\ RuleOf(k) = "OUT_OF_RANGE"
        /\ IssueOf(k).description = <<"H","e","a","r","t"," ","r","a","t","e"," ","o","u","t"," ","o","f"," ","r","a","n","g","e">>
        /\ trace[k].stages.query = <<"V","S">>

\* a run of a fallback issue searched for the tag and the description
C19_DescriptionWitness ==
    \E k \in StoredRuns :
        /\ RuleOf(k) = "FALLBACK"
        /\ trace[k].stages.query = <<"V","S"," ","H","e","a","r","t"," ","r","a","t","e"," ","l","i","m","i","t","s"," ","v","a","l","i","d","a","t","i","o","n">>

-----------------------------------------------------------------------------
(* SpecTwice: repeated calls of analyze_issue on a stored issue, with the   *)
(* environment of the process and the status of the issue changing between *)
(* the calls.  outcome holds the results of the calls in order.            *)

MaxCalls == 2

TwiceIssues == { Issue(1, issue_create, issue_type) :
                    issue_create \in IssueCreates, issue_type \in IssueTypes }

\* a call that reads the environment: with LLM_ENABLED on it answers with
\* the fallback recommendation
EngineCallReadingEnv(i, e, earlier) ==
    IF EnvFlag(e.LLM_ENABLED) THEN Returned(Fallback(i)) ELSE analyze_issue(i)

\* analyze_issue(issue) called in environment e after the earlier calls: it
\* reads neither
EngineCall(i, e, earlier) == analyze_issue(i)

InitTwice ==
    /\ issue \in TwiceIssues
    /\ env \in VariableSides
    /\ outcome = [kind |-> "calls", results |-> <<>>]
    /\ refineIn = Idle /\ refineOut = Idle
    /\ searchIn = Idle /\ searchOut = Idle
    /\ ISSUES = <<>> /\ RUNS = <<>> /\ AUDIT = <<>> /\ DOCUMENTS = <<>>
    /\ DECISIONS = <<>>
    /\ response = Idle /\ trace = <<>>

\* one more call of analyze_issue on the issue
CallEngine ==
    /\ Len(outcome.results) < MaxCalls
    /\ outcome' = [outcome EXCEPT
                      !.results = Append(@, EngineCall(issue, env, outcome.results))]
    /\ UNCHANGED <<issue, env, RefineVars, SearchVars, ISSUES, RUNS, AUDIT,
                   DOCUMENTS, DECISIONS, response, trace>>

\* the variables of the process are set differently
ChangeEnv ==
    /\ \E e \in VariableSides : e # env /\ env' = e
    /\ UNCHANGED <<issue, outcome, RefineVars, SearchVars, ISSUES, RUNS, AUDIT,
                   DOCUMENTS, DECISIONS, response, trace>>

\* storage.update_issue_status: issue.status = status
update_issue_status(i, status) == [i EXCEPT !.status = status]

\* a decision is recorded: the issue becomes triaged and ISSUE_UPDATED is
\* written
Triage ==
    /\ issue.status = "open"
    /\ issue' = update_issue_status(issue, "triaged")
    /\ AUDIT' = Append(AUDIT, AuditEvent("ISSUE_UPDATED", "SYSTEM", issue.issue_id,
                                         0, [status |-> "triaged"]))
    /\ UNCHANGED <<env, outcome, RefineVars, SearchVars, ISSUES, RUNS,
                   DOCUMENTS, DECISIONS, response, trace>>

NextTwice == CallEngine \/ ChangeEnv \/ Triage

SpecTwice == InitTwice /\ [][NextTwice]_vars

\* what the claim compares of a result
Compared(result) ==
    IF result.raised THEN result
    ELSE [raised |-> FALSE, severity |-> result.rec.severity,
          action |-> result.rec.action, confidence |-> result.rec.confidence,
          rationale |-> result.rec.rationale,
          rule_fired |-> result.rec.tool_results.rule_fired]

\* the issue reduced to description, evidence payload, subject id, domain
\* and fields
FiveFields(i) ==
    [description |-> i.description, evidence_payload |-> i.evidence_payload,
     subject_id |-> i.subject_id, domain |-> i.domain, fields |-> i.fields]

TwiceCalled == outcome # Idle /\ outcome.kind = "calls"

-----------------------------------------------------------------------------
(* SpecScan: analyze_issue on evidence trees with one leaf of interest at   *)
(* several depths                                                           *)

\* leaves: the missing ones of every kind, and values that only resemble
\* them
ScanLeaves ==
    { JNull, JStr(<<>>), JStr(<<" "," "," ">>), JStr(<<"n","u","l","l">>), JStr(<<" ","N","o","n","e"," ">>),
      JStr(<<"N","A">>), JStr(<<"n","/","a">>), JStr(<<" ","N","/","A">>),
      JStr(<<"n","a","n">>), JStr(<<"n","o","n","e"," ","g","i","v","e","n">>), JStr(<<"n",".","a",".">>), JStr(<<"0">>),
      JStr(<<"Y">>), JInt(0), JBool(FALSE), JFloat(1250) }

\* where the leaf sits: at the top, next to other values, inside a list,
\* and three or four levels down through maps and sequences
ScanShapes == {"top", "sibling", "list", "deep3", "deep4", "none", "containers"}

ScanEvidence(leaf, shape) ==
    IF shape = "top" THEN JDict(<<KV(<<"A","E","S","E","R">>, leaf)>>)
    ELSE IF shape = "sibling"
    THEN JDict(<<KV(<<"A","E","T","E","R","M">>, JStr(<<"H","e","a","d","a","c","h","e">>)), KV(<<"A","E","S","E","R">>, leaf),
                 KV(<<"v","i","s","i","t">>, JInt(3))>>)
    ELSE IF shape = "list" THEN JDict(<<KV(<<"v","a","l","u","e","s">>, JList(<<JInt(1), leaf>>))>>)
    ELSE IF shape = "deep3"
    THEN JDict(<<KV(<<"v","i","s","i","t">>, JDict(<<KV(<<"l","a","b","s">>,
                    JList(<<JDict(<<KV(<<"r","e","s","u","l","t">>, leaf)>>)>>))>>))>>)
    ELSE IF shape = "deep4"
    THEN JDict(<<KV(<<"v","i","s","i","t">>, JList(<<JList(<<JDict(<<KV(<<"l","a","b","s">>,
                    JDict(<<KV(<<"r","e","s","u","l","t">>, leaf)>>))>>)>>)>>))>>)
    ELSE IF shape = "none" THEN JDict(<<>>)
    ELSE JDict(<<KV(<<"l","a","b","s">>, JList(<<>>)), KV(<<"v","i","s","i","t">>, JDict(<<>>)),
                 KV(<<"r","o","w","s">>, JList(<<JDict(<<>>), JList(<<>>)>>))>>)

\* a pair of dates, one with a UTC offset and one without, around the leaf
ScanMixedDates(leaf) ==
    JDict(<<KV(<<"s","t","a","r","t","_","d","a","t","e">>, JStr(<<"2","0","2","4","-","0","3","-","0","1","T","0","0",":","3","0",":","0","0","+","0","2",":","0","0">>)),
            KV(<<"e","n","d","_","d","a","t","e">>, JStr(<<"2","0","2","4","-","0","2","-","2","9">>)), KV(<<"A","E","S","E","R">>, leaf)>>)

ScanDescriptions == { <<"P","e","n","d","i","n","g"," ","r","e","v","i","e","w">>, <<"A","E"," ","e","n","d"," ","d","a","t","e"," ","i","s"," ","b","e","f","o","r","e"," ","s","t","a","r","t"," ","d","a","t","e">> }

ScanIssues ==
    { [subject_id |-> "SUBJ-001", domain |-> <<"A","E">>, fields |-> <<"AESER">>,
       description |-> d, evidence_payload |-> ev] :
      d \in ScanDescriptions,
      ev \in { ScanEvidence(leaf, shape) : leaf \in ScanLeaves, shape \in ScanShapes }
             \cup { ScanMixedDates(leaf) : leaf \in ScanLeaves } }

InitScan ==
    /\ issue \in ScanIssues
    /\ outcome = Idle
    /\ refineIn = Idle /\ refineOut = Idle
    /\ searchIn = Idle /\ searchOut = Idle
    /\ ISSUES = <<>> /\ RUNS = <<>> /\ AUDIT = <<>> /\ DOCUMENTS = <<>>
    /\ DECISIONS = <<>>
    /\ env = Idle /\ response = Idle /\ trace = <<>>

NextScan == AnalyzeIssue

SpecScan == InitScan /\ [][NextScan]_vars

RECURSIVE LeafSet(_)
\* the leaves of a tree as a set
LeafSet(obj) ==
    IF obj.t = "dict"
    THEN UNION { LeafSet(obj.items[j].v) : j \in 1..Len(obj.items) }
    ELSE IF obj.t = "list"
    THEN UNION { LeafSet(obj.items[j]) : j \in 1..Len(obj.items) }
    ELSE {obj}

\* null, an empty or whitespace-only string, or one of the four words after
\* trimming, in any case
StatedMissing(v) ==
    \/ v = JNull
    \/ /\ v.t = "str"
       /\ _lower(Strip(v.s)) \in {<<>>, <<"n","u","l","l">>, <<"n","o","n","e">>, <<"n","a">>, <<"n","/","a">>}

ScanDone == outcome # Idle /\ outcome.kind = "done" /\ issue \in ScanIssues

\* rule 1 fired, rule 2 fired
DateRuleFired ==
    /\ ~outcome.result.raised
    /\ outcome.result.rec.tool_results.rule_fired = "AE_DATE_INCONSISTENCY"
MissingRuleFired ==
    /\ ~outcome.result.raised
    /\ outcome.result.rec.tool_results.rule_fired = "MISSING_CRITICAL_FIELD"
    /\ outcome.result.rec.tool_results.signals.missing_value_detected

\* C21: _has_missing_value is true if and only if some leaf of the evidence
\* tree, at any depth through maps and sequences, is null, an empty or
\* whitespace-only string, or a string equal (case-insensitively, after
\* trimming) to 'null', 'none', 'na' or 'n/a'; a tree with no such leaf is
\* not detected; and detection makes rule 2 fire whenever rule 1 does not.
C21_MissingnessScan ==
    ScanDone =>
        /\ _has_missing_value(issue.evidence_payload)
              <=> \E v \in LeafSet(issue.evidence_payload) : StatedMissing(v)
        /\ ((\E v \in LeafSet(issue.evidence_payload) : StatedMissing(v))
            /\ ~DateRuleFired) => MissingRuleFired
        /\ (~(\E v \in LeafSet(issue.evidence_payload) : StatedMissing(v))
            /\ ~outcome.result.raised) => ~MissingRuleFired

\* what does hold: the scan is as stated, and rule 2 fires on detection
\* whenever analyze_issue returns and rule 1 did not fire
C21_ScanAndRuleWhenReturned ==
    ScanDone =>
        /\ _has_missing_value(issue.evidence_payload)
              <=> \E v \in LeafSet(issue.evidence_payload) : StatedMissing(v)
        /\ ((\E v \in LeafSet(issue.evidence_payload) : StatedMissing(v))
            /\ ~outcome.result.raised /\ ~DateRuleFired) => MissingRuleFired
        /\ (~(\E v \in LeafSet(issue.evidence_payload) : StatedMissing(v))
            /\ ~outcome.result.raised) => ~MissingRuleFired

\* a null four levels down made rule 2 fire
C21_DeepNullWitness ==
    /\ ScanDone /\ issue.evidence_payload = ScanEvidence(JNull, "deep4")
    /\ MissingRuleFired

\* a missing leaf next to dates that cannot be compared: no rule fired
C21_RaisedWitness ==
    /\ ScanDone /\ issue.evidence_payload = ScanMixedDates(JStr(<<" ","N","/","A">>))
    /\ outcome.result.raised /\ outcome.result.exc = "TypeError"

-----------------------------------------------------------------------------
(* SpecWorkflow: issues are created, analysed and decided               *)
(*                                                                          *)
(* The stores are those of the in-memory backend.  A decision arrives      *)
(* with its X-API-Key header; AUTH_ENABLED and API_KEYS are variables of   *)
(* the process.  Run ids and decision ids are handed out in order.         *)

MaxWorkflowIssues == 2
MaxWorkflowAnalyses == 2
MaxDecisions == 2

\* auth._is_truthy(value)
_is_truthy(value) ==
    LET v == IF value = Unset THEN <<>> ELSE value.s
    IN  _lower(Strip(v)) \in {<<"1">>, <<"t","r","u","e">>, <<"y","e","s">>, <<"y">>, <<"o","n">>}

\* auth.auth_enabled()
auth_enabled(e) == _is_truthy(e.AUTH_ENABLED)

AuthContext(user, roles, authenticated) ==
    [user |-> user, roles |-> roles, authenticated |-> authenticated]

\* parse_api_keys("reviewkey:jdoe:reviewer,writerkey:loader:writer")
ConfiguredKeys ==
    [reviewkey |-> AuthContext("jdoe", {"reviewer"}, TRUE),
     writerkey |-> AuthContext("loader", {"writer"}, TRUE)]

\* get_auth_context(x_api_key): the context, or the status of the
\* HTTPException
get_auth_context(e, x_api_key) ==
    IF ~auth_enabled(e)
    THEN [status |-> 200, ctx |-> AuthContext("SYSTEM", {"system"}, FALSE)]
    ELSE IF DOMAIN e.API_KEYS = {} THEN [status |-> 500]
    ELSE IF x_api_key = "None" \/ x_api_key = "" THEN [status |-> 401]
    ELSE IF ~Has(e.API_KEYS, x_api_key) THEN [status |-> 401]
    ELSE [status |-> 200, ctx |-> e.API_KEYS[x_api_key]]

\* the dependency require_roles(required)
require_roles(required, e, x_api_key) ==
    LET got == get_auth_context(e, x_api_key)
    IN  IF got.status # 200 THEN got
        ELSE IF auth_enabled(e) /\ required # {} /\ got.ctx.roles \cap required = {}
        THEN [status |-> 403]
        ELSE got

\* a valid request body of POST /issues/{issue_id}/decisions
DecisionCreate(run_id, decision_type, final_action, final_text, reviewer, reason) ==
    [run_id |-> run_id, decision_type |-> decision_type,
     final_action |-> final_action, final_text |-> final_text,
     reviewer |-> reviewer, reason |-> reason]

\* Decision(issue_id=..., **decision_create) with its fresh decision_id
Decision(decision_id, issue_id, decision_create) ==
    [decision_id |-> decision_id, issue_id |-> issue_id,
     run_id |-> decision_create.run_id,
     decision_type |-> decision_create.decision_type,
     final_action |-> decision_create.final_action,
     final_text |-> decision_create.final_text,
     reviewer |-> decision_create.reviewer,
     reason |-> decision_create.reason]

\* storage.get_run(issue_id, run_id): the run of that issue, or None
get_run(runs, issue_id, run_id) ==
    LET history == Get(runs, issue_id, <<>>)
        at == {k \in 1..Len(history) : history[k].run_id = run_id}
    IN  IF at = {} THEN None ELSE history[CHOOSE k \in at : \A j \in at : k <= j]

\* every decision triages
StatusTriaged(final_action) == "triaged"

\* the status append_decision and create_decision give the issue
StatusAfter(final_action) == IF final_action = "IGNORE" THEN "closed" ELSE "triaged"

\* storage.append_decision past the run check: the decision goes to the
\* front of the issue's list
append_decision(decisions, issue_id, decision) ==
    Put(decisions, issue_id, <<decision>> \o Get(decisions, issue_id, <<>>))

\* the issues in the order in which they are created
WorkflowIssueOrder ==
    << IssueCreate("edit_check", <<"A","E">>, "SUBJ-001", <<"AESTDTC", "AEENDTC">>,
                   <<"A","E"," ","e","n","d"," ","d","a","t","e"," ","i","s"," ","b","e","f","o","r","e"," ","s","t","a","r","t"," ","d","a","t","e">>, EvEndBeforeStart),
       IssueCreate("listing", <<"V","S">>, "SUBJ-003", <<>>,
                   <<"H","e","a","r","t"," ","r","a","t","e"," ","l","i","m","i","t","s"," ","v","a","l","i","d","a","t","i","o","n">>, EvEmpty) >>

WorkflowRequests == { AnalyzeRequest("v0.1", 0, None, None, "None") }

\* AUTH_ENABLED unset, set with keys, and set without keys
WorkflowEnvs ==
    { ApiEnv(WorkingEnv(ObjectContent(FullObject)), CitableTable, VariablesUnset)
          @@ [AUTH_ENABLED |-> a, API_KEYS |-> k] :
        <<a, k>> \in { <<Unset, ConfiguredKeys>>, <<JStr(<<"1">>), ConfiguredKeys>>,
                       <<JStr(<<"o","n">>), <<>>>> } }

Approve == DecisionCreate(1, "APPROVE", "QUERY_SITE", "Send site query.", "jdoe", "None")
Ignore == DecisionCreate(1, "OVERRIDE", "IGNORE", "No action.", "jdoe", "Not an issue")
EditSecond == DecisionCreate(2, "EDIT", "DATA_FIX", "Correct the date.", "jdoe", "None")
UnknownRun == DecisionCreate(3, "APPROVE", "IGNORE", "No action.", "jdoe", "None")
Spoofed == DecisionCreate(1, "APPROVE", "QUERY_SITE", "Send site query.", "someone_else", "None")

DecisionCall(issue_id, x_api_key, decision_create) ==
    [issue_id |-> issue_id, x_api_key |-> x_api_key, decision_create |-> decision_create]

\* the decisions that are posted: by the reviewer on the first issue, on
\* the second and on one that does not exist, and with other keys
DecisionCalls ==
    { DecisionCall(1, "reviewkey", d) : d \in {Approve, Ignore, EditSecond, UnknownRun, Spoofed} }
    \cup { DecisionCall(2, "reviewkey", EditSecond),
           DecisionCall(MaxWorkflowIssues + 1, "reviewkey", Approve),
           DecisionCall(1, "writerkey", Approve),
           DecisionCall(1, "None", Approve),
           DecisionCall(1, "badkey", Approve) }

InitWorkflow ==
    /\ ISSUES = <<>> /\ RUNS = <<>> /\ AUDIT = <<>> /\ DOCUMENTS = <<>>
    /\ DECISIONS = <<>>
    /\ env \in WorkflowEnvs
    /\ response = Idle
    /\ trace = <<>>
    /\ issue = Idle /\ outcome = Idle
    /\ refineIn = Idle /\ refineOut = Idle
    /\ searchIn = Idle /\ searchOut = Idle

\* the calls of one operation so far
CallsOf(op) == {k \in 1..Len(trace) : trace[k].op = op}

\* every decision stored so far
AllDecisions == UNION { {DECISIONS[i][k] : k \in 1..Len(DECISIONS[i])} : i \in DOMAIN DECISIONS }

WorkflowCreateIssue ==
    /\ Cardinality(DOMAIN ISSUES) < MaxWorkflowIssues
    /\ Cardinality(DOMAIN ISSUES) < Len(WorkflowIssueOrder)
    /\ CreateIssueCall(WorkflowIssueOrder[Cardinality(DOMAIN ISSUES) + 1], "deterministic")

WorkflowAnalyze ==
    \E issue_id \in 1..(MaxWorkflowIssues + 1), req \in WorkflowRequests :
        /\ Cardinality(CallsOf("analyze")) < MaxWorkflowAnalyses
        /\ AnalyzeCall(issue_id, req)

\* the handler is left with an HTTPException: nothing is stored
Rejected(call, status) ==
    /\ response' = [status |-> status]
    /\ trace' = Append(trace, [op |-> "decision", status |-> status,
                               issue_id |-> call.issue_id, call |-> call])
    /\ UNCHANGED <<ISSUES, RUNS, AUDIT, DECISIONS>>

\* append_decision stores the decision, writes DECISION_RECORDED and sets
\* the status; update_issue_status sets it again and writes ISSUE_UPDATED
Accepted(call, found, decision) ==
    /\ DECISIONS' = append_decision(DECISIONS, call.issue_id, decision)
    /\ ISSUES' = Put(ISSUES, call.issue_id,
                     update_issue_status(
                         [found EXCEPT !.status = StatusAfter(decision.final_action)],
                         StatusAfter(decision.final_action)))
    /\ AUDIT' = AUDIT \o
           << AuditEvent("DECISION_RECORDED", decision.reviewer, call.issue_id,
                         decision.run_id,
                         [decision_type |-> decision.decision_type,
                          final_action |-> decision.final_action,
                          decision_id |-> decision.decision_id]),
              AuditEvent("ISSUE_UPDATED", "SYSTEM", call.issue_id, 0,
                         [status |-> StatusAfter(decision.final_action)]) >>
    /\ response' = [status |-> 200, body |-> decision]
    /\ trace' = Append(trace, [op |-> "decision", status |-> 200,
                               issue_id |-> call.issue_id, call |-> call])
    /\ UNCHANGED RUNS

\* POST /issues/{issue_id}/decisions
create_decision(call, _auth) ==
    IF _auth.status # 200 THEN Rejected(call, _auth.status)
    ELSE IF get_issue(ISSUES, call.issue_id) = None THEN Rejected(call, 404)
    ELSE IF auth_enabled(env) /\ call.decision_create.reviewer # _auth.ctx.user
    THEN Rejected(call, 403)
    ELSE IF get_run(RUNS, call.issue_id, call.decision_create.run_id) = None
    THEN Rejected(call, 404)
    ELSE Accepted(call, get_issue(ISSUES, call.issue_id),
                  Decision(Cardinality(AllDecisions) + 1, call.issue_id,
                           call.decision_create))

CreateDecision ==
    \E call \in DecisionCalls :
        /\ Cardinality(CallsOf("decision")) < MaxDecisions
        /\ create_decision(call, require_roles({"reviewer", "admin"}, env, call.x_api_key))
        /\ UNCHANGED <<DOCUMENTS, env, EngineVars, RefineVars, SearchVars>>

NextWorkflow == WorkflowCreateIssue \/ WorkflowAnalyze \/ CreateDecision

SpecWorkflow == InitWorkflow /\ [][NextWorkflow]_vars

\* the step is a call of the operation; its entry is the last of the trace
Called(op) ==
    /\ Len(trace') = Len(trace) + 1
    /\ trace'[Len(trace')].op = op
LastCall == trace'[Len(trace')]

\* the step posts a decision, by a caller who may record it, on an issue
\* that is closed
DecisionOnClosed ==
    /\ Called("decision")
    /\ require_roles({"reviewer", "admin"}, env, LastCall.call.x_api_key).status = 200
    /\ ~auth_enabled(env) \/ LastCall.call.x_api_key = "reviewkey"
    /\ Has(ISSUES, LastCall.issue_id)
    /\ ISSUES[LastCall.issue_id].status = "closed"

\* C22: a decision posted on an issue whose status is CLOSED is answered
\* with 400, no decision is stored and no audit event is written, and the
\* status stays CLOSED
C22_ClosedIssueRejectsDecision ==
    [][DecisionOnClosed =>
          /\ response'.status = 400
          /\ DECISIONS' = DECISIONS
          /\ AUDIT' = AUDIT
          /\ ISSUES'[LastCall.issue_id].status = "closed"]_vars

\* a closed issue has taken a further decision: two decisions are stored
\* for it, the later one does not ignore, and the issue is triaged again
C22_ReopenedWitness ==
    \E i \in DOMAIN DECISIONS :
        /\ Len(DECISIONS[i]) = 2
        /\ DECISIONS[i][2].final_action = "IGNORE"
        /\ DECISIONS[i][1].final_action # "IGNORE"
        /\ ISSUES[i].status = "triaged"
        /\ response.status = 200


\* every run stored so far
AllRuns == UNION { {RUNS[i][k] : k \in 1..Len(RUNS[i])} : i \in DOMAIN RUNS }

\* the step leaves every stored run where it was
RunsKept ==
    \A i \in DOMAIN RUNS :
        /\ Has(RUNS', i)
        /\ Len(RUNS'[i]) >= Len(RUNS[i])
        /\ \A k \in 1..Len(RUNS[i]) : RUNS'[i][k] = RUNS[i][k]

\* the step adds one run to the history of the issue and none elsewhere
OneRunAdded(issue_id, run) ==
    /\ Has(RUNS', issue_id)
    /\ Len(RUNS'[issue_id]) = Len(Get(RUNS, issue_id, <<>>)) + 1
    /\ RUNS'[issue_id][Len(RUNS'[issue_id])] = run
    /\ \A i \in DOMAIN RUNS' \ {issue_id} : Has(RUNS, i) /\ Len(RUNS'[i]) = Len(RUNS[i])
    /\ \A old \in AllRuns : old.run_id # run.run_id

\* the step adds one ANALYZE_RUN_CREATED event for the run and no other
OneEventAdded(issue_id, run) ==
    /\ Len(AUDIT') = Len(AUDIT) + 1
    /\ SubSeq(AUDIT', 1, Len(AUDIT)) = AUDIT
    /\ AUDIT'[Len(AUDIT')].event_type = "ANALYZE_RUN_CREATED"
    /\ AUDIT'[Len(AUDIT')].issue_id = issue_id
    /\ AUDIT'[Len(AUDIT')].run_id = run.run_id

C23_NotFoundWitness ==
    /\ Len(trace) > 0
    /\ trace[Len(trace)].op = "analyze"
    /\ trace[Len(trace)].status = 404
    /\ response.status = 404
    /\ AllRuns # {}

-----------------------------------------------------------------------------
(* Claims about a refinement that does not enhance                          *)

\* the analyses of issues that exist
AnalysesOfIssues ==
    {k \in 1..Len(trace) : trace[k].op = "analyze" /\ trace[k].status # 404}

\* the route entered the refinement step: the request's switch, else the
\* handling mode or LLM_ENABLED (lines 148-154)
RefinementRequested(k) == FlagOf(ReqOf(k).use_llm, IssueOf(k), env.LLM_ENABLED)

\* the call got as far as the refinement step: it stored a run, or it was
\* left with the exception of the client's constructor
ReachedRefinement(k) ==
    \/ trace[k].status = 200
    \/ trace[k].status = 500 /\ Get(trace[k], "exc", "None") = "OpenAIError"

\* the stored run records the request and its failure, and not both a
\* failure and an enhancement
FailureRecorded(k) ==
    /\ trace[k].status = 200
    /\ LET tool_results == RunOf(k).recommendation.tool_results
       IN  /\ ~Get(tool_results, "llm_enhanced", FALSE) =>
                  /\ Get(tool_results, "llm_requested", FALSE)
                  /\ Get(tool_results, "llm_failed", FALSE)
           /\ ~(Get(tool_results, "llm_failed", FALSE)
                   /\ Get(tool_results, "llm_enhanced", FALSE))

\* C25: in every analysis in which refinement was requested and no
\* enhancement took place, whatever the cause, the call returns a stored
\* run whose tool_results records llm_requested and llm_failed; llm_failed
\* and llm_enhanced are never both set
C25_RefinementFailureObservable ==
    \A k \in AnalysesOfIssues :
        (ReachedRefinement(k) /\ RefinementRequested(k)) => FailureRecorded(k)

\* what holds: as C25 for every cause but a constructor of the client
\* that raises
C25_ObservableUnlessConstructorRaises ==
    \A k \in AnalysesOfIssues :
        (ReachedRefinement(k) /\ RefinementRequested(k) /\ ~env.client_ctor_raises)
            => FailureRecorded(k)

\* refinement was requested with a key and the library in place, the
\* constructor of the client raised, and the call ended in a 500 with
\* no run stored
C25_ConstructorWitness ==
    \E k \in AnalysesOfIssues :
        /\ RefinementRequested(k)
        /\ env.client_ctor_raises /\ env.openai_installed /\ ~NoApiKey(env)
        /\ trace[k].status = 500
        /\ Get(trace[k], "exc", "None") = "OpenAIError"
        /\ RUNS = <<>>

\* the causes that are recorded: no key, no library, a call that raises,
\* a response without recognised fields
FailureCauseSeen(cause) ==
    \E k \in StoredRuns :
        /\ RefinementRequested(k)
        /\ Get(RunOf(k).recommendation.tool_results, "llm_failed", FALSE)
        /\ Get(RunOf(k).recommendation.tool_results, "llm_requested", FALSE)
        /\ ~Get(RunOf(k).recommendation.tool_results, "llm_enhanced", FALSE)
        /\ CASE cause = "credentials" -> NoApiKey(env) /\ env.openai_installed
             [] cause = "library" -> ~env.openai_installed
             [] cause = "call" -> env.call.kind = "raises" /\ ~env.client_ctor_raises
             [] cause = "fields" ->
                    /\ env.call.kind = "content" /\ ~env.client_ctor_raises
                    /\ env.openai_installed /\ ~NoApiKey(env)
                    /\ ~HasEnhancementField(env.call.content.value.d)
             [] OTHER -> FALSE
C25_CredentialsWitness == FailureCauseSeen("credentials")
C25_LibraryWitness == FailureCauseSeen("library")
C25_CallWitness == FailureCauseSeen("call")
C25_FieldsWitness == FailureCauseSeen("fields")


\* enhance_with_llm returned a merged recommendation, a new object
MergeReturned ==
    /\ RefineDone
    /\ ~refineOut.result.raised
    /\ ~Get(refineOut.result, "same_object", TRUE)

\* C26: the tool_results of a merged recommendation has every key of the
\* deterministic tool_results with its value, llm_enhanced = true,
\* llm_model = the model used, and llm_rationale_original and
\* llm_confidence_original equal to the rationale and the confidence
\* before the merge
C26_MergeAuditTrail ==
    MergeReturned =>
        LET before == refineIn.rec
            after == refineOut.result.rec.tool_results
        IN  /\ \A key \in DOMAIN before.tool_results :
                   Has(after, key) /\ after[key] = before.tool_results[key]
            /\ DOMAIN after = DOMAIN before.tool_results
                   \cup {"llm_enhanced", "llm_model", "llm_rationale_original",
                         "llm_confidence_original"}
            /\ Get(after, "llm_enhanced", FALSE) = TRUE
            /\ Get(after, "llm_model", "None") = refineIn.model_version
            /\ Get(after, "llm_rationale_original", None) = before.rationale
            /\ Get(after, "llm_confidence_original", None) = before.confidence

\* a merge that changed rationale and confidence of a cited recommendation
\* under the model gpt-4
C26_Witness ==
    /\ MergeReturned
    /\ refineIn.model_version = "gpt-4"
    /\ refineOut.result.rec.rationale # refineIn.rec.rationale
    /\ refineOut.result.rec.confidence # refineIn.rec.confidence
    /\ Has(refineIn.rec.tool_results, "rule_fired")
    /\ refineOut.result.rec.tool_results.llm_rationale_original = refineIn.rec.rationale


-----------------------------------------------------------------------------
(* Claims about the score and the purity of the rule-based classification   *)

\* the rule-based result is confident: high or medium
Confident == ClassifyDone /\ outcome.rule_based.confidence \in {"high", "medium"}

\* the score has the sign of the decision
SignAgrees(result) ==
    /\ result.issue_type = "llm_required" => result.score > 0
    /\ result.issue_type = "deterministic" => result.score < 0

\* both accumulators reached 0.8 and no short-circuit fired
BothHigh(issue_create) ==
    /\ ~ExplicitComplexity(issue_create) /\ ~QualifiedPattern(issue_create)
    /\ Escalation(issue_create) >= 80 /\ Deterministic(issue_create) >= 80

C27_MediumWitness ==
    /\ Confident /\ outcome.rule_based.confidence = "medium"
    /\ outcome.rule_based.issue_type = "deterministic"
    /\ outcome.rule_based.score < -30


-----------------------------------------------------------------------------
(* SpecPure: _classify_rule_based called again and again on one issue       *)
(*                                                                          *)
(* The phrase sets of the classifier are Python sets of str; the order in  *)
(* which a process iterates them follows from its string hash seed         *)
(* (PYTHONHASHSEED, random per process when unset).  env holds the seed of *)
(* the running process and LLM_ENABLED; two orders stand for the seeds.    *)

MaxPureCalls == 2

HashSeeds == {"ascending", "descending"}

CharRank(c) == IF \E i \in 1..26 : LowerChars[i] = c
               THEN CHOOSE i \in 1..26 : LowerChars[i] = c ELSE 0

RECURSIVE LexLess(_, _)
LexLess(a, b) ==
    IF b = <<>> THEN FALSE
    ELSE IF a = <<>> THEN TRUE
    ELSE IF CharRank(a[1]) # CharRank(b[1]) THEN CharRank(a[1]) < CharRank(b[1])
    ELSE LexLess(Tail(a), Tail(b))

\* `for phrase in PHRASES: if phrase in desc_lower`: the phrases met, in
\* the order in which the process iterates the set
MetInOrder(phrases, desc_lower, seed) ==
    LET met == {phrase \in phrases : Contains(desc_lower, phrase)}
    IN  CHOOSE order \in [1..Cardinality(met) -> met] :
            \A i, j \in 1..Cardinality(met) :
                i < j => IF seed = "ascending" THEN LexLess(order[i], order[j])
                         ELSE LexLess(order[j], order[i])

\* the entries that a loop appends to matched_rules
MatchedEach(rule, order) == [j \in 1..Len(order) |-> [rule |-> rule, text |-> order[j]]]

\* the Domain-specific entry: the first pattern of the domain's list that
\* is in the description
DomainMatched(domain, desc_lower) ==
    LET patterns == IF _apply_domain_specific_rules(domain, desc_lower) = "llm_required"
                    THEN DomainLlmPatterns(domain)
                    ELSE DomainDeterministicPatterns(domain)
        at == {j \in 1..Len(patterns) : Contains(desc_lower, patterns[j])}
    IN  IF _apply_domain_specific_rules(domain, desc_lower) = "None" THEN <<>>
        ELSE << [rule |-> "Domain-specific", domain |-> domain,
                 text |-> patterns[CHOOSE j \in at : \A k \in at : j <= k]] >>

\* lines 341-378: matched_rules after steps 2 and 3
MatchedRules(issue_create, desc_lower, seed) ==
    (IF _assess_evidence_ambiguity(issue_create.evidence_payload, desc_lower) # "None"
     THEN << [rule |-> "Evidence ambiguity",
              text |-> _assess_evidence_ambiguity(issue_create.evidence_payload,
                                                  desc_lower)] >>
     ELSE <<>>)
    \o (IF _assess_structural_complexity(issue_create.description, desc_lower) # "None"
        THEN << [rule |-> "Structural",
                 text |-> _assess_structural_complexity(issue_create.description,
                                                        desc_lower)] >>
        ELSE <<>>)
    \o MatchedEach("Complexity indicator",
                   MetInOrder(COMPLEXITY_INDICATORS, desc_lower, seed))
    \o MatchedEach("Simple pattern", MetInOrder(SIMPLE_PATTERNS, desc_lower, seed))
    \o DomainMatched(issue_create.domain, desc_lower)

\* the deterministic patterns in the description that pass their
\* exclusion check
SimplePatternsMet(desc_lower, domain) ==
    {pattern \in DETERMINISTIC_PATTERNS :
        /\ Contains(desc_lower, pattern)
        /\ _is_simple_deterministic_pattern(pattern, desc_lower, domain)}

\* the reason of the ClassificationResult: the first keyword or pattern the
\* loop meets, or matched_rules joined, or the text of the branch
ReasonOf(issue_create, desc_lower, seed) ==
    IF KeywordHit(desc_lower)
    THEN << [rule |-> "Explicit complexity keyword",
             text |-> MetInOrder(LLM_REQUIRED_KEYWORDS, desc_lower, seed)[1]] >>
    ELSE IF PatternHit(desc_lower, issue_create.domain)
    THEN << [rule |-> "Deterministic pattern",
             text |-> MetInOrder(SimplePatternsMet(desc_lower, issue_create.domain),
                                 desc_lower, seed)[1]] >>
    ELSE IF MatchedRules(issue_create, desc_lower, seed) # <<>>
    THEN MatchedRules(issue_create, desc_lower, seed)
    ELSE << [rule |-> "None",
             text |-> RuleBased(issue_create, desc_lower).confidence] >>

\* one call of _classify_rule_based in a process with the seed
RuleBasedCallOf(issue_create, e) ==
    [seed |-> e.hash_seed, LLM_ENABLED |-> e.LLM_ENABLED,
     result |-> _classify_rule_based(issue_create),
     reason |-> ReasonOf(issue_create, _lower(issue_create.description), e.hash_seed)]

PureDescriptions ==
    ClassifyDescriptions
    \cup { <<"M","i","s","s","i","n","g"," ","r","e","q","u","i","r","e","d"," ","f","i","e","l","d">>, <<"R","e","q","u","i","r","e","s"," ","m","e","d","i","c","a","l"," ","r","e","v","i","e","w">>,
           <<"T","i","m","e","l","i","n","e"," ","c","o","n","f","l","i","c","t","s"," ","a","f","f","e","c","t","s"," ","d","o","s","e">> }

PureIssues ==
    { IssueCreate("edit_check", dom, "SUBJ-001", <<>>, d, ev) :
        dom \in {<<"A","E">>, <<"D","M">>}, d \in PureDescriptions, ev \in {EvEmpty, EvRows} }

PureEnvs ==
    { [hash_seed |-> seed, LLM_ENABLED |-> flag] :
        seed \in HashSeeds, flag \in {Unset, JStr(<<"1">>)} }

InitPure ==
    /\ issue \in PureIssues
    /\ env \in PureEnvs
    /\ outcome = [kind |-> "calls", results |-> <<>>]
    /\ refineIn = Idle /\ refineOut = Idle
    /\ searchIn = Idle /\ searchOut = Idle
    /\ ISSUES = <<>> /\ RUNS = <<>> /\ AUDIT = <<>> /\ DOCUMENTS = <<>>
    /\ DECISIONS = <<>>
    /\ response = Idle /\ trace = <<>>

\* one more call of _classify_rule_based on the issue
CallRuleBased ==
    /\ Len(outcome.results) < MaxPureCalls
    /\ outcome' = [outcome EXCEPT !.results = Append(@, RuleBasedCallOf(issue, env))]
    /\ UNCHANGED <<issue, env, RefineVars, SearchVars, ISSUES, RUNS, AUDIT,
                   DOCUMENTS, DECISIONS, response, trace>>

\* the service is started again: another process, with its own seed and
\* settings
RestartProcess ==
    /\ \E e \in PureEnvs : e # env /\ env' = e
    /\ UNCHANGED <<issue, outcome, RefineVars, SearchVars, ISSUES, RUNS, AUDIT,
                   DOCUMENTS, DECISIONS, response, trace>>

NextPure == CallRuleBased \/ RestartProcess

SpecPure == InitPure /\ [][NextPure]_vars

PureCalls == IF outcome.kind = "calls" THEN outcome.results ELSE <<>>

\* C28: for the same description, evidence payload and domain the
\* rule-based classification yields the same issue type, confidence tier,
\* score and reason, whatever the iteration order of the phrase sets, the
\* environment and the earlier calls
C28_RuleBasedPure ==
    \A j, k \in 1..Len(PureCalls) :
        /\ PureCalls[j].result = PureCalls[k].result
        /\ PureCalls[j].reason = PureCalls[k].reason

\* what holds: type, confidence and score never differ, and the reason
\* does not differ between calls of processes that iterate alike
C28_PureButReasonOrder ==
    \A j, k \in 1..Len(PureCalls) :
        /\ PureCalls[j].result = PureCalls[k].result
        /\ PureCalls[j].seed = PureCalls[k].seed =>
               PureCalls[j].reason = PureCalls[k].reason

\* two calls on one issue in two processes: the same type, confidence and
\* score, and reasons that name different keywords
C28_ReasonDiffersWitness ==
    /\ Len(PureCalls) = 2
    /\ PureCalls[1].result = PureCalls[2].result
    /\ PureCalls[1].reason # PureCalls[2].reason
    /\ PureCalls[1].reason[1].rule = "Explicit complexity keyword"
    /\ PureCalls[1].seed # PureCalls[2].seed

\* two calls whose settings differ and whose iteration order agrees
C28_SameOrderWitness ==
    /\ Len(PureCalls) = 2
    /\ PureCalls[1].seed = PureCalls[2].seed
    /\ PureCalls[1].LLM_ENABLED # PureCalls[2].LLM_ENABLED
    /\ PureCalls[1].reason = PureCalls[2].reason
    /\ Len(PureCalls[1].reason) > 1


-----------------------------------------------------------------------------
(* Claims about when the tie-break is consulted                             *)

\* the fallback is enabled: by the argument, or by the variable when the
\* argument is unset
FallbackEnabled ==
    \/ outcome.use_llm_fallback = JBool(TRUE)
    \/ /\ outcome.use_llm_fallback = None
       /\ EnvFlag(env.CLASSIFIER_USE_LLM_FALLBACK)

\* the response of the tie-break is a JSON object whose classification is
\* a string that names llm_required
NamesLlmRequired(e) ==
    /\ e.call.kind = "content"
    /\ e.call.content.kind = "json"
    /\ e.call.content.value.t = "object"
    /\ Has(e.call.content.value.d, "classification")
    /\ e.call.content.value.d["classification"].t = "str"
    /\ _lower(e.call.content.value.d["classification"].s) = <<"l","l","m","_","r","e","q","u","i","r","e","d">>

\* C29: with rule-based confidence high or medium classify_issue makes no
\* external call and returns the rule-based type whatever the fallback
\* flag; it returns another type than the rule-based one only when the
\* confidence is low, the fallback is enabled (argument, or the variable
\* when the argument is unset) and the tie-break answered with a
\* well-formed response naming llm_required
C29_TieBreakOnlyWhenLow ==
    ClassifyDone =>
        /\ outcome.rule_based.confidence \in {"high", "medium"} =>
               /\ ~Get(outcome, "external_call", TRUE)
               /\ outcome.result = ReturnedType(outcome.rule_based.issue_type)
        /\ (~outcome.result.raised
              /\ Get(outcome.result, "issue_type", "None") # outcome.rule_based.issue_type) =>
               /\ outcome.rule_based.confidence = "low"
               /\ FallbackEnabled
               /\ NamesLlmRequired(env)
               /\ Get(outcome, "external_call", FALSE)
        /\ Get(outcome, "external_call", FALSE) =>
               outcome.rule_based.confidence = "low" /\ FallbackEnabled

\* low confidence, the argument unset and the variable set: the tie-break
\* names llm_required and classify_issue returns it
C29_Witness ==
    /\ ClassifyDone
    /\ outcome.rule_based.confidence = "low"
    /\ outcome.use_llm_fallback = None
    /\ EnvFlag(env.CLASSIFIER_USE_LLM_FALLBACK)
    /\ outcome.external_call
    /\ outcome.rule_based.issue_type = "deterministic"
    /\ outcome.result = ReturnedType("llm_required")

\* high confidence with the fallback switched on and a tie-break that
\* would name the other type: no call, the rule-based type is returned
C29_ConfidentWitness ==
    /\ ClassifyDone
    /\ outcome.rule_based.confidence = "high"
    /\ outcome.rule_based.issue_type = "deterministic"
    /\ outcome.use_llm_fallback = JBool(TRUE)
    /\ NamesLlmRequired(env) /\ ReachesCall(env)
    /\ ~outcome.external_call
    /\ outcome.result = ReturnedType("deterministic")


-----------------------------------------------------------------------------
(* SpecCap: analyze_issue on evidence with up to MaxLeaves heart rates,     *)
(* some of them out of range                                                *)

MaxLeaves == 7

\* which of the leaves are out of range: TRUE for 999, FALSE for 80
LeafPatterns == UNION { [1..n -> BOOLEAN] : n \in 0..MaxLeaves }

CapLeaf(flagged) == IF flagged THEN JInt(999) ELSE JInt(80)

\* the leaves as entries hr_1, hr_2, ... of the payload, or as the records
\* of a list under "vitals" after a note that is no number
CapEvidence(pattern, nested) ==
    IF nested
    THEN JDict(<<KV(<<"n","o","t","e">>, JStr(<<"r","e","s","t","i","n","g">>)),
                 KV(<<"v","i","t","a","l","s">>,
                    JList([j \in 1..Len(pattern) |-> JDict(<<KV(<<"h","r">>, CapLeaf(pattern[j]))>>)]))>>)
    ELSE JDict([j \in 1..Len(pattern) |-> KV(<<"h","r","_">> \o IntToStr(j), CapLeaf(pattern[j]))])

CapDescriptions == { <<"V","i","t","a","l"," ","s","i","g","n"," ","c","h","e","c","k">>, <<"H","e","a","r","t"," ","r","a","t","e"," ","o","u","t"," ","o","f"," ","r","a","n","g","e">> }

CapInputs ==
    { [pattern |-> pattern, nested |-> nested,
       issue |-> [subject_id |-> "SUBJ-001", domain |-> <<"V","S">>, fields |-> <<"VSORRES">>,
                  description |-> d, evidence_payload |-> CapEvidence(pattern, nested)]] :
      pattern \in LeafPatterns, nested \in BOOLEAN, d \in CapDescriptions }

\* refineIn holds how the evidence of the issue was built
InitCap ==
    /\ \E in \in CapInputs :
          /\ issue = in.issue
          /\ refineIn = [kind |-> "cap", pattern |-> in.pattern, nested |-> in.nested]
    /\ outcome = Idle
    /\ refineOut = Idle
    /\ searchIn = Idle /\ searchOut = Idle
    /\ ISSUES = <<>> /\ RUNS = <<>> /\ AUDIT = <<>> /\ DOCUMENTS = <<>>
    /\ DECISIONS = <<>>
    /\ env = Idle /\ response = Idle /\ trace = <<>>

NextCap == AnalyzeIssue

SpecCap == InitCap /\ [][NextCap]_vars

CapDone ==
    /\ outcome # Idle /\ outcome.kind = "done"
    /\ Get(refineIn, "kind", "None") = "cap"

\* the positions of the leaves that are out of range, in traversal order
FlaggedPositions(pattern) == SelectSeq([j \in 1..Len(pattern) |-> j], LAMBDA j : pattern[j])

\* the signal of the leaf at a position
SignalAt(position, nested) ==
    [key_path |-> IF nested THEN <<"v","i","t","a","l","s","[">> \o IntToStr(position - 1) \o <<"]",".","h","r">>
                  ELSE <<"h","r","_">> \o IntToStr(position),
     value |-> JInt(999)]

Min(a, b) == IF a <= b THEN a ELSE b

\* the out-of-range rule fired
OutOfRangeFired ==
    /\ ~outcome.result.raised
    /\ Get(outcome.result.rec.tool_results, "rule_fired", "None") = "OUT_OF_RANGE"

\* C30: whenever the out-of-range rule fires, out_of_range_values holds
\* exactly the first min(5, n) flagged numeric leaves in the order of the
\* traversal and out_of_range_count is n, the number of all flagged leaves
\* (0 when only the phrase in the description triggered the rule)
C30_OutOfRangeCap ==
    CapDone =>
        LET at == FlaggedPositions(refineIn.pattern)
            n == Len(at)
            phrase == Contains(_lower(issue.description), <<"o","u","t"," ","o","f"," ","r","a","n","g","e">>)
        IN  /\ ~outcome.result.raised
            /\ OutOfRangeFired <=> (n > 0 \/ phrase)
            /\ OutOfRangeFired =>
                   LET signals == outcome.result.rec.tool_results.signals
                   IN  /\ signals.out_of_range_count = n
                       /\ Len(signals.out_of_range_values) = Min(5, n)
                       /\ \A j \in 1..Min(5, n) :
                              Get(signals.out_of_range_values, j, None)
                                  = SignalAt(at[j], refineIn.nested)
                       /\ signals.keyword_match = phrase

\* seven leaves in a list of records, six of them out of range with one in
\* range among the first five: five are reported, the count is six
C30_Witness ==
    /\ CapDone /\ OutOfRangeFired
    /\ refineIn.nested
    /\ Len(refineIn.pattern) = MaxLeaves
    /\ ~refineIn.pattern[2]
    /\ outcome.result.rec.tool_results.signals.out_of_range_count = 6
    /\ Len(outcome.result.rec.tool_results.signals.out_of_range_values) = 5
    /\ outcome.result.rec.tool_results.signals.out_of_range_values[2].key_path
           = <<"v","i","t","a","l","s","[","2","]",".","h","r">>

\* only the phrase triggered the rule: no value, count 0
C30_PhraseOnlyWitness ==
    /\ CapDone /\ OutOfRangeFired
    /\ outcome.result.rec.tool_results.signals.keyword_match
    /\ outcome.result.rec.tool_results.signals.out_of_range_count = 0
    /\ outcome.result.rec.tool_results.signals.out_of_range_values = <<>>
    /\ Len(refineIn.pattern) > 0

====
